---- MODULE Spec2Model ----
(***************************************************************************)
(* A model of the agentman SSH gateway (gateway/src): the per-connection   *)
(* authentication callbacks with the fingerprint cache of the state        *)
(* manager, the exec bridge that pumps a container exec onto an SSH        *)
(* channel, and the gateway control commands.                              *)
(*                                                                         *)
(* Strings that the code inspects character by character (SSH user names,  *)
(* identity names) are sequences of one-character strings.  Option<T> is a *)
(* sequence of length 0 (None) or 1 (Some).                                *)
(***************************************************************************)
EXTENDS Integers, Sequences, FiniteSets, TLC

(***************************************************************************)
(* Bounds of the model.                                                    *)
(***************************************************************************)
NConns == 2
NKeys == 2

Conns == 1..NConns
Keys == 1..NKeys

None == << >>
Some(x) == << x >>
IsSome(o) == Len(o) = 1
Unwrap(o) == o[1]

Contains(s, x) == \E i \in 1..Len(s) : s[i] = x

(***************************************************************************)
(* github.rs: user-name parsing and the validators.                        *)
(***************************************************************************)
AsciiAlnumChars == {"a", "b", "p", "q", "x", "Z", "0", "7"}
\* char::is_alphanumeric is the Unicode predicate: it also holds of letters
\* outside ASCII, of which "é" (two bytes in UTF-8) stands for all.
UnicodeAlnumChars == {"é"}

is_alphanumeric(ch) == ch \in AsciiAlnumChars \cup UnicodeAlnumChars

Utf8Len(ch) == IF ch \in UnicodeAlnumChars THEN 2 ELSE 1

RECURSIVE ByteLen(_)
ByteLen(s) == IF s = << >> THEN 0 ELSE Utf8Len(Head(s)) + ByteLen(Tail(s))

ProjectNameMax == 64
GithubUsernameMax == 39

\* Position of the first '+' in the user name, 0 when there is none.
FindPlus(username) ==
    IF \E i \in 1..Len(username) : username[i] = "+"
    THEN CHOOSE i \in 1..Len(username) :
            /\ username[i] = "+"
            /\ \A j \in 1..(i - 1) : username[j] # "+"
    ELSE 0

parse_ssh_username_unsplit(username) == << username, None >>

parse_ssh_username(username) ==
    LET pos == FindPlus(username)
    IN  IF pos # 0
        THEN << SubSeq(username, 1, pos - 1),
                Some(SubSeq(username, pos + 1, Len(username))) >>
        ELSE << username, None >>

validate_project_name(name) ==
    /\ name # << >>
    /\ ByteLen(name) <= ProjectNameMax
    /\ \A i \in 1..Len(name) :
          is_alphanumeric(name[i]) \/ name[i] = "-" \/ name[i] = "_"
    /\ ~ (name[1] = "." \/ name[1] = "-")

validate_github_username(name) ==
    /\ name # << >>
    /\ ByteLen(name) <= GithubUsernameMax
    /\ \A i \in 1..Len(name) : is_alphanumeric(name[i]) \/ name[i] = "-"
    /\ ~ (name[1] = "-" \/ name[Len(name)] = "-")
    /\ ~ \E i \in 1..(Len(name) - 1) : name[i] = "-" /\ name[i + 1] = "-"

(***************************************************************************)
(* github.rs: keys, fingerprints and verification against the provider.    *)
(* A public key k is its wire blob; its base64 rendering is the token      *)
(* <<"b64", k>> and its fingerprint the token <<"SHA256", k>> (SHA-256 is  *)
(* taken to be injective).                                                 *)
(***************************************************************************)
KeyAlgorithm(k) == IF k % 2 = 1 THEN "ssh-ed25519" ELSE "ssh-rsa"

compute_fingerprint_from_pubkey(k) == << "SHA256", k >>

public_key_to_openssh(k) == << KeyAlgorithm(k), << "b64", k >> >>

\* A key line is a sequence of whitespace-separated tokens.
ValidBase64(tok) == tok[1] = "b64"

\* Ok(<<type, data>>) or Err.
parse_ssh_key(line) ==
    IF Len(line) < 2 THEN None
    ELSE IF ~ValidBase64(line[2]) THEN None
    ELSE Some(<< line[1], line[2] >>)

UserA == << "a" >>
UserB == << "b" >>

\* What https://github.com/<user>.keys serves: Some(list of key lines),
\* or None for a non-2xx answer (unknown user).
PublishedKeys(github_user) ==
    IF github_user = UserA
    THEN Some(<< << "ssh-ed25519", << "b64", 1 >>, << "cmt" >> >> >>)
    ELSE IF github_user = UserB
    THEN Some(<< << "garbage" >>,
                 << "ssh-rsa", << "b64", 2 >> >> >>)
    ELSE None

\* fetch_keys: the list of lines, or an error when the request fails
\* (transient) or the answer is not a success.
fetch_keys(github_user, transient) ==
    IF transient THEN None ELSE PublishedKeys(github_user)

\* verify_key: Some(key type) when a fetched line equals the presented key
\* on its normalized "<type> <data>" prefix, None (Err) otherwise.
VerifyKeyFlip(github_user, public_key, transient) ==
    LET fetched == fetch_keys(github_user, transient)
    IN  IF ~IsSome(fetched) THEN None
        ELSE Some(public_key[1])

verify_key(github_user, public_key, transient) ==
    LET fetched == fetch_keys(github_user, transient)
    IN  IF ~IsSome(fetched) THEN None
        ELSE LET keys == Unwrap(fetched)
                 presented == parse_ssh_key(public_key)
             IN  IF ~IsSome(presented) THEN None
                 ELSE IF \E i \in 1..Len(keys) :
                            /\ IsSome(parse_ssh_key(keys[i]))
                            /\ Unwrap(parse_ssh_key(keys[i])) = Unwrap(presented)
                      THEN Some(Unwrap(presented)[1])
                      ELSE None

\* The provider lists key k under github_user.
Listed(github_user, k) ==
    /\ IsSome(PublishedKeys(github_user))
    /\ \E i \in 1..Len(Unwrap(PublishedKeys(github_user))) :
          LET line == Unwrap(PublishedKeys(github_user))[i]
          IN  Len(line) >= 2 /\ line[2] = << "b64", k >> /\ line[1] = KeyAlgorithm(k)

\* config.bootstrap_github_users
bootstrap_github_users == << UserA, UserB >>

(***************************************************************************)
(* Inputs of the authentication callbacks.                                 *)
(***************************************************************************)
SshUsers == { << "p" >>, << "p", "+", "a" >>,
              << "-", "p" >>, << "p", "+", "-" >> }

\* Responses to the keyboard-interactive prompt: none yet, an empty list,
\* or a list whose first entry is the name typed.
KbdResponses == { None, Some(<< >>), Some(<< UserB >>),
                  Some(<< << "a", "-" >> >>) }

VARIABLES
    key_to_github,              \* GatewayState.key_to_github
    github_user,                \* ConnectionHandler.github_user
    project,                    \* ConnectionHandler.project
    pending_github_user,        \* ConnectionHandler.pending_github_user
    offered_key_fingerprints,   \* ConnectionHandler.offered_key_fingerprints
    pc,                         \* where the connection's current callback is suspended
    call,                       \* the locals of the suspended callback
    auth_result                 \* <<connection, Auth value>> of the last callback that returned

authVars == << key_to_github, github_user, project, pending_github_user,
               offered_key_fingerprints, pc, call, auth_result >>

NoCall == [cb |-> "none", path |-> "none", key |-> 0, id |-> << >>,
           rest |-> << >>, idx |-> 0, ktype |-> ""]

KeyCacheEntry(user, ktype) == [github_username |-> user, key_type |-> ktype]

get_github_user_miss(fingerprint) == None

\* StateManager::get_github_user
get_github_user(fingerprint) ==
    IF fingerprint \in DOMAIN key_to_github
    THEN Some(key_to_github[fingerprint])
    ELSE None

\* The callback returns `res` without touching anything else.
Return(c, res) ==
    /\ auth_result' = << c, res >>
    /\ pc' = [pc EXCEPT ![c] = "idle"]
    /\ call' = [call EXCEPT ![c] = NoCall]

PushOffered(c, fp) ==
    IF Contains(offered_key_fingerprints[c], fp)
    THEN offered_key_fingerprints[c]
    ELSE Append(offered_key_fingerprints[c], fp)

StartVerify(c, cb, path, k, id, rest) ==
    /\ pc' = [pc EXCEPT ![c] = "verify"]
    /\ call' = [call EXCEPT ![c] = [cb |-> cb, path |-> path, key |-> k,
                                    id |-> id, rest |-> rest, idx |-> 0,
                                    ktype |-> ""]]
    /\ UNCHANGED auth_result

\* auth_publickey_offered up to its first suspension: the project check, the
\* bookkeeping of the offered fingerprint and the cache lookup.
AuthPublickeyOffered(c, user, k) ==
    /\ pc[c] = "idle"
    /\ LET parsed == parse_ssh_username(user)
           proj == parsed[1]
           github_hint == parsed[2]
           fingerprint == compute_fingerprint_from_pubkey(k)
           cached == get_github_user(fingerprint)
       IN  IF ~validate_project_name(proj)
           THEN /\ Return(c, "Reject")
                /\ UNCHANGED << key_to_github, github_user, project,
                                pending_github_user, offered_key_fingerprints >>
           ELSE /\ project' = [project EXCEPT ![c] = Some(proj)]
                /\ offered_key_fingerprints' =
                      [offered_key_fingerprints EXCEPT ![c] = PushOffered(c, fingerprint)]
                /\ UNCHANGED << key_to_github, pending_github_user >>
                /\ IF IsSome(cached)
                   THEN /\ github_user' = [github_user EXCEPT
                                              ![c] = Some(Unwrap(cached).github_username)]
                        /\ Return(c, "Accept")
                   ELSE /\ UNCHANGED github_user
                        /\ IF IsSome(pending_github_user[c])
                           THEN StartVerify(c, "offered", "pending", k,
                                            Unwrap(pending_github_user[c]), << >>)
                           ELSE IF IsSome(github_hint)
                           THEN IF ~validate_github_username(Unwrap(github_hint))
                                THEN Return(c, "Reject")
                                ELSE StartVerify(c, "offered", "hint", k,
                                                 Unwrap(github_hint), << >>)
                           ELSE IF bootstrap_github_users = << >>
                           THEN Return(c, "RejectPublicKeyKeyboardInteractive")
                           ELSE StartVerify(c, "offered", "bootstrap", k,
                                            Head(bootstrap_github_users),
                                            Tail(bootstrap_github_users))

\* auth_keyboard_interactive forgetting the pending identity on a response
\* it turns down.
AuthKeyboardInteractiveForgetting(c, response) ==
    /\ pc[c] = "idle"
    /\ UNCHANGED << key_to_github, github_user, project, offered_key_fingerprints >>
    /\ IF ~IsSome(response)
       THEN /\ Return(c, "Partial")
            /\ UNCHANGED pending_github_user
       ELSE LET responses == Unwrap(response)
            IN  IF responses = << >> \/ ~validate_github_username(responses[1])
                THEN /\ Return(c, "Reject")
                     /\ pending_github_user' = [pending_github_user EXCEPT ![c] = None]
                ELSE /\ pending_github_user' =
                           [pending_github_user EXCEPT ![c] = Some(responses[1])]
                     /\ Return(c, "RejectPublicKey")

\* auth_keyboard_interactive
AuthKeyboardInteractive(c, response) ==
    /\ pc[c] = "idle"
    /\ UNCHANGED << key_to_github, github_user, project, offered_key_fingerprints >>
    /\ IF ~IsSome(response)
       THEN /\ Return(c, "Partial")
            /\ UNCHANGED pending_github_user
       ELSE LET responses == Unwrap(response)
            IN  IF responses = << >>
                THEN /\ Return(c, "Reject")
                     /\ UNCHANGED pending_github_user
                ELSE IF ~validate_github_username(responses[1])
                THEN /\ Return(c, "Reject")
                     /\ UNCHANGED pending_github_user
                ELSE /\ pending_github_user' =
                           [pending_github_user EXCEPT ![c] = Some(responses[1])]
                     /\ Return(c, "RejectPublicKey")

\* auth_publickey (signature verified) up to its first suspension.  The
\* user name is not looked at (the parameter is _user).
AuthPublickey(c, k) ==
    /\ pc[c] = "idle"
    /\ LET fingerprint == compute_fingerprint_from_pubkey(k)
       IN  offered_key_fingerprints' =
              [offered_key_fingerprints EXCEPT ![c] = PushOffered(c, fingerprint)]
    /\ UNCHANGED << key_to_github, github_user, project >>
    /\ IF IsSome(github_user[c])
       THEN /\ Return(c, "Accept")
            /\ UNCHANGED pending_github_user
       ELSE IF IsSome(pending_github_user[c])
       THEN /\ pending_github_user' = [pending_github_user EXCEPT ![c] = None]
            /\ StartVerify(c, "signed", "pending", k,
                           Unwrap(pending_github_user[c]), << >>)
       ELSE /\ Return(c, "Reject")
            /\ UNCHANGED pending_github_user

\* The callback's tail after cache_all_offered_keys returned.
FinishAccept(c) ==
    /\ github_user' = [github_user EXCEPT ![c] = Some(call[c].id)]
    /\ pending_github_user' =
          [pending_github_user EXCEPT
              ![c] = IF call[c].cb = "offered" /\ call[c].path = "pending"
                     THEN None ELSE @]
    /\ Return(c, "Accept")

\* VerifyKey with the failed hint answered as the exhausted bootstrap list is.
VerifyKeyHintKeepsMethods(c, transient) ==
    /\ pc[c] = "verify"
    /\ UNCHANGED << key_to_github, project, offered_key_fingerprints >>
    /\ LET res == verify_key(call[c].id, public_key_to_openssh(call[c].key), transient)
       IN  IF IsSome(res)
           THEN /\ pc' = [pc EXCEPT ![c] = "cache_check"]
                /\ call' = [call EXCEPT ![c].ktype = Unwrap(res), ![c].idx = 1]
                /\ UNCHANGED << auth_result, github_user, pending_github_user >>
           ELSE /\ UNCHANGED << github_user, pending_github_user >>
                /\ IF call[c].cb = "signed" THEN Return(c, "Reject")
                   ELSE IF call[c].path \in {"pending", "hint"}
                   THEN Return(c, "RejectPublicKeyKeyboardInteractive")
                   ELSE IF call[c].rest # << >>
                   THEN /\ call' = [call EXCEPT ![c].id = Head(call[c].rest),
                                                ![c].rest = Tail(call[c].rest)]
                        /\ UNCHANGED << pc, auth_result >>
                   ELSE Return(c, "RejectPublicKeyKeyboardInteractive")

\* The await on verify_key and what the callback does with its outcome.
VerifyKey(c, transient) ==
    /\ pc[c] = "verify"
    /\ UNCHANGED << key_to_github, project, offered_key_fingerprints >>
    /\ LET res == verify_key(call[c].id, public_key_to_openssh(call[c].key), transient)
       IN  IF IsSome(res)
           THEN /\ pc' = [pc EXCEPT ![c] = "cache_check"]
                /\ call' = [call EXCEPT ![c].ktype = Unwrap(res), ![c].idx = 1]
                /\ UNCHANGED << auth_result, github_user, pending_github_user >>
           ELSE /\ UNCHANGED << github_user, pending_github_user >>
                /\ IF call[c].cb = "signed" THEN Return(c, "Reject")
                   ELSE IF call[c].path = "pending"
                   THEN Return(c, "RejectPublicKeyKeyboardInteractive")
                   ELSE IF call[c].path = "hint" THEN Return(c, "Reject")
                   ELSE IF call[c].rest # << >>
                   THEN /\ call' = [call EXCEPT ![c].id = Head(call[c].rest),
                                                ![c].rest = Tail(call[c].rest)]
                        /\ UNCHANGED << pc, auth_result >>
                   ELSE Return(c, "RejectPublicKeyKeyboardInteractive")

\* cache_all_offered_keys: the lookup of the fingerprint at idx.
CacheCheck(c) ==
    /\ pc[c] = "cache_check"
    /\ UNCHANGED << key_to_github, project, offered_key_fingerprints >>
    /\ LET offered == offered_key_fingerprints[c]
           idx == call[c].idx
       IN  IF IsSome(get_github_user(offered[idx]))
           THEN \* continue
                IF idx = Len(offered)
                THEN FinishAccept(c)
                ELSE /\ call' = [call EXCEPT ![c].idx = idx + 1]
                     /\ UNCHANGED << pc, auth_result, github_user, pending_github_user >>
           ELSE /\ pc' = [pc EXCEPT ![c] = "cache_write"]
                /\ UNCHANGED << call, auth_result, github_user, pending_github_user >>

cache_key_no_insert(fingerprint, entry) == key_to_github

\* StateManager::cache_key
cache_key(fingerprint, entry) ==
    [f \in DOMAIN key_to_github \cup {fingerprint} |->
        IF f = fingerprint THEN entry ELSE key_to_github[f]]

\* cache_all_offered_keys: the cache_key call for the fingerprint at idx.
CacheWrite(c) ==
    /\ pc[c] = "cache_write"
    /\ UNCHANGED << project, offered_key_fingerprints >>
    /\ LET offered == offered_key_fingerprints[c]
           idx == call[c].idx
       IN  /\ key_to_github' =
                 cache_key(offered[idx], KeyCacheEntry(call[c].id, call[c].ktype))
           /\ IF idx = Len(offered)
              THEN FinishAccept(c)
              ELSE /\ pc' = [pc EXCEPT ![c] = "cache_check"]
                   /\ call' = [call EXCEPT ![c].idx = idx + 1]
                   /\ UNCHANGED << auth_result, github_user, pending_github_user >>

\* The TCP connection ends and a later one takes its place: run_server makes
\* a fresh ConnectionHandler for every accepted stream.
Reconnect(c) ==
    /\ pc[c] = "idle"
    /\ github_user' = [github_user EXCEPT ![c] = None]
    /\ project' = [project EXCEPT ![c] = None]
    /\ pending_github_user' = [pending_github_user EXCEPT ![c] = None]
    /\ offered_key_fingerprints' = [offered_key_fingerprints EXCEPT ![c] = << >>]
    /\ UNCHANGED auth_result
    /\ UNCHANGED << key_to_github, pc, call >>

(***************************************************************************)
(* The session of an authenticated connection: channels, the container of  *)
(* the workspace, the exec bridges and the gateway control commands.  One  *)
(* connection (SessConn) and one workspace (its identity and project) are  *)
(* followed.                                                               *)
(***************************************************************************)
NChannels == 2
MaxExecs == 1
MaxFrames == 2
MaxControl == 2
NContainers == 2

SessConn == 1
Channels == 1..NChannels
ContainerIds == 1..NContainers

VARIABLES
    alive,          \* the connection's session loop runs: sends through its Handle succeed
    channels,       \* the channels of the connection, as the client opened and closed them
    container_id,   \* ConnectionHandler.container_id
    exec_sessions,  \* ConnectionHandler.exec_sessions
    execs,          \* the exec I/O tasks spawned by start_exec_session, by exec id
    sent,           \* per channel: the messages handed to it, in order, with their sender
    containers,     \* the engine's containers labelled for the workspace
    workspaces,     \* GatewayState.workspaces, the entry of the workspace
    workspace_dir,  \* the workspace directory exists on the host
    engine_calls    \* the calls the latest channel callback made to the engine to
                    \* create, start, stop or remove a container, in order

sessVars == << alive, channels, container_id, exec_sessions, execs, sent,
               containers, workspaces, workspace_dir, engine_calls >>

VARIABLES
    port_forwarding,  \* config.port_forwarding: allow_remote, allow_gateway_ports
    remote_forwards,  \* ConnectionHandler.remote_forwards: (address, port) -> listener task
    listeners,        \* the listener tasks spawned by tcpip_forward, by task id
    tcp_conns,        \* the per-connection tasks the listeners spawned, in accept order
    forwarded         \* the forwarded-tcpip channel opens handed to the session, in order

fwdVars == << port_forwarding, remote_forwards, listeners, tcp_conns, forwarded >>

VARIABLES
    state_file,     \* the state file on disk: whether it exists, and its content
    store_pc,       \* per connection: where its StateManager call is
    store_content,  \* per connection: the serialized document save() is writing
    store_ops,      \* the number of mutating StateManager calls begun
    load_failed     \* the last StateManager::load returned Err

fileVars == << state_file, store_pc, store_content, store_ops, load_failed >>

VARIABLES
    fn_arg,   \* the argument of a call of one of the pure functions
    fn_ret    \* what the call returned, once it has

pureVars == << fn_arg, fn_ret >>

VARIABLES
    provisioning   \* per connection: where its get_or_create_container call is

provVars == << provisioning >>

VARIABLES
    arrived,     \* per channel: how many data messages of the client the handler took
    stdin,       \* per exec: the stdin channel, the exec's input and what was written to it
    data_call    \* the data callback suspended in tx.send, if one is

stdinVars == << arrived, stdin, data_call >>

restVars == << fwdVars, fileVars, pureVars, provVars, stdinVars >>

vars == << authVars, sessVars, fwdVars, fileVars, pureVars, provVars, stdinVars >>

unwrap_or(o, default) == IF IsSome(o) THEN Unwrap(o) ELSE default

(***************************************************************************)
(* docker.rs: the engine and get_or_create_container.  A container is      *)
(* [name, running]; its name is the number of the suffix that              *)
(* ensure_unique_name appended to the base name (0: none).  Engine calls   *)
(* can fail: `fault` names the call of the operation that does.            *)
(***************************************************************************)
UniqueNameLimit == 100

ProvisionFaults == { "none", "writable", "inspect", "start", "list", "create",
                     "start_new", "save", "create_exec", "start_exec" }

NameInUse(cs, name) == \E id \in DOMAIN cs : cs[id].name = name

\* ensure_unique_name giving up before it tries the last suffix.
RECURSIVE ensure_unique_name_stopping_early(_, _)
ensure_unique_name_stopping_early(cs, suffix) ==
    IF ~NameInUse(cs, suffix) THEN suffix
    ELSE IF suffix + 1 >= UniqueNameLimit THEN 0 - 1
    ELSE ensure_unique_name_stopping_early(cs, suffix + 1)

\* ensure_unique_name: the first free name, or 0 - 1 when more than
\* UniqueNameLimit suffixes are taken.
RECURSIVE ensure_unique_name(_, _)
ensure_unique_name(cs, suffix) ==
    IF ~NameInUse(cs, suffix) THEN suffix
    ELSE IF suffix + 1 > UniqueNameLimit THEN 0 - 1
    ELSE ensure_unique_name(cs, suffix + 1)

\* The id the engine gives the next container.
FreshContainerId(cs) == CHOOSE id \in ContainerIds \ DOMAIN cs :
                            \A other \in ContainerIds \ DOMAIN cs : id <= other

EngineCall(op, target) == << op, target >>

ProvisionResult(ok, id, cs, ws, dir, calls) ==
    [ok |-> ok, id |-> id, containers |-> cs, workspaces |-> ws, workspace_dir |-> dir,
     calls |-> calls]

\* The WorkspaceInfo of the workspace of SessConn's identity and project
\* (lines 305-312); created_at and host_workspace_path are left out.
WorkspaceInfo(name, id) ==
    [github_user |-> UserA, project |-> << "p" >>,
     container_name |-> name, container_id |-> Some(id)]

create_container_clearing_record(fault) ==
    [ok |-> FALSE, id |-> 0, containers |-> containers, workspaces |-> None,
     workspace_dir |-> TRUE, calls |-> << >>]

\* ContainerManager::create_container
create_container(fault) ==
    LET name == ensure_unique_name(containers, 0)
        id == FreshContainerId(containers)
        created == [c \in DOMAIN containers \cup {id} |->
                       IF c = id THEN [name |-> name, running |-> FALSE, paused |-> FALSE]
                       ELSE containers[c]]
        started == [created EXCEPT ![id].running = TRUE]
        create == << EngineCall("create", id) >>
        start == << EngineCall("start", id) >>
    IN  IF fault = "list" \/ name < 0
        THEN ProvisionResult(FALSE, 0, containers, workspaces, TRUE, << >>)
        ELSE IF fault = "create"
        THEN ProvisionResult(FALSE, 0, containers, workspaces, TRUE, create)
        ELSE IF fault = "start_new"
        THEN ProvisionResult(FALSE, 0, created, workspaces, TRUE, create \o start)
        ELSE IF fault = "save"
        THEN ProvisionResult(FALSE, 0, started, Some(WorkspaceInfo(name, id)), TRUE,
                             create \o start)
        ELSE ProvisionResult(TRUE, id, started, Some(WorkspaceInfo(name, id)), TRUE,
                             create \o start)

get_or_create_skipping_lookup(fault) == create_container(fault)

\* ensure_running that leaves a paused container paused.
ensure_running_not_unpausing(id, fault) ==
    LET start == IF containers[id].running THEN << >> ELSE << EngineCall("start", id) >>
    IN  IF ~containers[id].running /\ fault = "start"
        THEN ProvisionResult(FALSE, 0, containers, workspaces, TRUE, start)
        ELSE ProvisionResult(TRUE, id, [containers EXCEPT ![id].running = TRUE],
                             workspaces, TRUE, start)

\* ContainerManager::ensure_running: a paused container is unpaused, one the
\* engine does not report as running is started.
ensure_running(id, fault) ==
    LET unpause == IF containers[id].paused THEN << EngineCall("unpause", id) >> ELSE << >>
        start == IF containers[id].running THEN << >> ELSE << EngineCall("start", id) >>
        unpaused == [containers EXCEPT ![id].paused = FALSE]
    IN  IF containers[id].paused /\ fault = "unpause"
        THEN ProvisionResult(FALSE, 0, containers, workspaces, TRUE, unpause)
        ELSE IF ~containers[id].running /\ fault = "start"
        THEN ProvisionResult(FALSE, 0, unpaused, workspaces, TRUE, unpause \o start)
        ELSE ProvisionResult(TRUE, id, [unpaused EXCEPT ![id].running = TRUE],
                             workspaces, TRUE, unpause \o start)

\* ContainerManager::get_or_create_container
get_or_create_container(fault) ==
    IF fault = "writable"
    THEN ProvisionResult(FALSE, 0, containers, workspaces, workspace_dir, << >>)
    ELSE IF IsSome(workspaces) /\ IsSome(Unwrap(workspaces).container_id)
    THEN LET id == Unwrap(Unwrap(workspaces).container_id)
         IN  IF fault = "inspect"
             THEN ProvisionResult(FALSE, 0, containers, workspaces, TRUE, << >>)
             ELSE IF id \in DOMAIN containers
             THEN ensure_running(id, fault)
             ELSE create_container(fault)
    ELSE create_container(fault)

\* The engine can take one more container.
CanProvision == ContainerIds \ DOMAIN containers # {}

(***************************************************************************)
(* ssh.rs: messages to a channel.  A message is [from, kind, arg]: `from`  *)
(* is the id of the exec whose I/O task sent it, or Gateway for a callback *)
(* of the connection handler; `arg` is the payload.                        *)
(***************************************************************************)
Gateway == 0

Msg(from, kind, arg) == [from |-> from, kind |-> kind, arg |-> arg]

\* What a send appends to the channel: nothing once the session is gone
\* (the send returns Err).
Emit(ch, msgs) ==
    IF alive THEN [sent EXCEPT ![ch] = sent[ch] \o msgs] ELSE sent

(***************************************************************************)
(* ssh.rs: start_exec_session and the I/O task it spawns.                  *)
(***************************************************************************)
FrameKinds == { "StdOut", "StdErr", "StdIn", "Console" }

\* What output.next() yields: a frame, the end of the stream, or an error.
StreamItems == FrameKinds \cup { "End", "Error" }

PollLimit == 80

\* bollard's ExecInspectResponse as far as the task reads it, or the error
\* of the inspect call.
InspectOk(running, exit_code) == [tag |-> "ok", running |-> running, exit_code |-> exit_code]
InspectErr == [tag |-> "err", running |-> None, exit_code |-> None]
NoInspect == [tag |-> "none", running |-> None, exit_code |-> None]

\* Exit codes the engine reports.
ExitCodes == { 0 - 1, 0, 3 }

\* How the engine answers the inspect calls of one exec: running_polls
\* times "still running", and `final` from then on.
FinalAnswers ==
    { InspectOk(Some(FALSE), Some(c)) : c \in ExitCodes }
       \cup { InspectOk(Some(FALSE), None), InspectOk(None, Some(3)), InspectErr }

RunningPolls == { 0, PollLimit - 1, PollLimit }

InspectScripts ==
    { [running_polls |-> n, final |-> f] : n \in RunningPolls \ {PollLimit}, f \in FinalAnswers }
       \cup { [running_polls |-> PollLimit, final |-> InspectErr] }

inspect_exec(script, i) ==
    IF i <= script.running_polls THEN InspectOk(Some(TRUE), None) ELSE script.final

\* `code as u32` for a code that is not negative.  (The codes of the model
\* are below 2^32, where the cast keeps the value.)
AsU32(code) == code

ExitStatusNegativeAsZero(code) == IF code < 0 THEN 0 ELSE AsU32(code)

\* line 1083
ExitStatusOf(code) == IF code < 0 THEN 255 ELSE AsU32(code)

\* The i-th iteration of the loop `for _ in 0..80` leaves the loop: the
\* inspect call failed or the exec is reported as not running.
Breaks(script, i) ==
    LET info == inspect_exec(script, i)
    IN  info.tag = "err" \/ ~unwrap_or(info.running, FALSE)

PollLoopPastLimit(script) ==
    IF \E i \in 1..PollLimit : Breaks(script, i)
    THEN LET i == CHOOSE j \in 1..PollLimit :
                     Breaks(script, j) /\ \A k \in 1..(j - 1) : ~Breaks(script, k)
             info == inspect_exec(script, i)
         IN  IF info.tag = "err"
             THEN [exit_status |-> 255, polls |-> i, inspect |-> info]
             ELSE [exit_status |-> ExitStatusOf(unwrap_or(info.exit_code, 0)),
                   polls |-> i, inspect |-> info]
    ELSE [exit_status |-> 255, polls |-> PollLimit + 1,
          inspect |-> inspect_exec(script, PollLimit + 1)]

\* The loop (lines 1075-1091): the exit status it leaves, the number of
\* inspect calls made, and the last answer.
PollLoop(script) ==
    IF \E i \in 1..PollLimit : Breaks(script, i)
    THEN LET i == CHOOSE j \in 1..PollLimit :
                     Breaks(script, j) /\ \A k \in 1..(j - 1) : ~Breaks(script, k)
             info == inspect_exec(script, i)
         IN  IF info.tag = "err"
             THEN [exit_status |-> 255, polls |-> i, inspect |-> info]
             ELSE [exit_status |-> ExitStatusOf(unwrap_or(info.exit_code, 0)),
                   polls |-> i, inspect |-> info]
    ELSE [exit_status |-> 255, polls |-> PollLimit,
          inspect |-> inspect_exec(script, PollLimit)]

\* The locals of the exit-status block (lines 1074-1093) before the loop.
NoPoll == [exit_status |-> 255, polls |-> 0, inspect |-> NoInspect]

\* The I/O task of an exec: the channel and kind it was started with, where
\* it is, the frames it has read from the exec's output, why it left the
\* stream loop, and the locals of the exit-status block as the loop left them.
ExecTask(ch, kind) ==
    [channel |-> ch, kind |-> kind, pc |-> "stream", output |-> << >>,
     ended |-> "no", poll |-> NoPoll]

AfterStreamAlwaysPoll(kind) == "poll"

AfterStreamNeverPoll(kind) == "eof"

\* line 1070: only Session kind reports an exit status.
AfterStream(kind) == IF kind = "Session" THEN "poll" ELSE "eof"

RECURSIVE FramesRead(_)
FramesRead(es) == IF es = << >> THEN 0 ELSE Len(Head(es).output) + FramesRead(Tail(es))

ForwardStderrOnTcpForward(e, kind, frame, idx) ==
    IF frame = "StdErr"
    THEN IF kind = "Session"
         THEN << Msg(e, "extended_data", << frame, idx >>) >>
         ELSE << Msg(e, "data", << frame, idx >>) >>
    ELSE << Msg(e, "data", << frame, idx >>) >>

\* What the task sends for a frame (lines 1020-1061): stderr as extended
\* data 1 on Session kind and nothing on TcpForward kind, every other frame
\* as data.  idx is the frame's place in the exec's output.
Forward(e, kind, frame, idx) ==
    IF frame = "StdErr"
    THEN IF kind = "Session"
         THEN << Msg(e, "extended_data", << frame, idx >>) >>
         ELSE << >>
    ELSE << Msg(e, "data", << frame, idx >>) >>

\* One turn of the stream loop (lines 1017-1068).
PumpOutput(e, item) ==
    /\ e \in 1..Len(execs)
    /\ execs[e].pc = "stream"
    /\ item \in FrameKinds => FramesRead(execs) < MaxFrames
    /\ LET x == execs[e]
           idx == Len(x.output) + 1
           msgs == Forward(e, x.kind, item, idx)
       IN  IF item = "End" \/ item = "Error"
           THEN /\ execs' = [execs EXCEPT ![e].pc = AfterStream(x.kind),
                                          ![e].ended = IF item = "End" THEN "eof" ELSE "error"]
                /\ UNCHANGED sent
           ELSE IF msgs # << >> /\ ~alive
           THEN \* the send fails: break
                /\ execs' = [execs EXCEPT ![e].pc = AfterStream(x.kind),
                                          ![e].ended = "send",
                                          ![e].output = Append(x.output, item)]
                /\ UNCHANGED sent
           ELSE /\ execs' = [execs EXCEPT ![e].output = Append(x.output, item)]
                /\ sent' = Emit(x.channel, msgs)
    /\ UNCHANGED << alive, channels, container_id, exec_sessions,
                    containers, workspaces, workspace_dir, engine_calls >>

\* The polls of inspect_exec (lines 1074-1091).
PumpPoll(e, script) ==
    /\ e \in 1..Len(execs)
    /\ execs[e].pc = "poll"
    /\ execs' = [execs EXCEPT ![e].pc = "exit_status",
                              ![e].poll = PollLoop(script)]
    /\ UNCHANGED << alive, channels, container_id, exec_sessions, sent,
                    containers, workspaces, workspace_dir, engine_calls >>

\* line 1093
PumpExitStatus(e) ==
    /\ e \in 1..Len(execs)
    /\ execs[e].pc = "exit_status"
    /\ sent' = Emit(execs[e].channel,
                    << Msg(e, "exit_status", << execs[e].poll.exit_status >>) >>)
    /\ execs' = [execs EXCEPT ![e].pc = "eof"]
    /\ UNCHANGED << alive, channels, container_id, exec_sessions,
                    containers, workspaces, workspace_dir, engine_calls >>

\* line 1097
PumpEof(e) ==
    /\ e \in 1..Len(execs)
    /\ execs[e].pc = "eof"
    /\ sent' = Emit(execs[e].channel, << Msg(e, "eof", << >>) >>)
    /\ execs' = [execs EXCEPT ![e].pc = "close"]
    /\ UNCHANGED << alive, channels, container_id, exec_sessions,
                    containers, workspaces, workspace_dir, engine_calls >>

\* line 1098
PumpClose(e) ==
    /\ e \in 1..Len(execs)
    /\ execs[e].pc = "close"
    /\ sent' = Emit(execs[e].channel, << Msg(e, "close", << >>) >>)
    /\ execs' = [execs EXCEPT ![e].pc = "done"]
    /\ UNCHANGED << alive, channels, container_id, exec_sessions,
                    containers, workspaces, workspace_dir, engine_calls >>

(***************************************************************************)
(* ssh.rs: the stdin side of an exec.  stdin[e] is the mpsc channel that   *)
(* start_exec_session makes for exec e: the messages queued, whether the   *)
(* receiver lives, whether the exec's input is open, and the messages      *)
(* written to it.  A data message is << channel, arrival number >>.        *)
(***************************************************************************)
StdinCapacity == 32

MaxBridges == 2

BridgeIds == 1..MaxBridges

NoStdin == [queue |-> << >>, rx |-> "open", input |-> "open", written |-> << >>]

\* The handler is in no callback: russh runs the callbacks of a connection
\* one after the other.
HandlerIdle == data_call = None

\* The stdin task ends, by itself or aborted: stdin_rx and input are dropped.
StdinDropped(e) == [stdin EXCEPT ![e].queue = << >>, ![e].rx = "dropped",
                                 ![e].input = "closed"]

\* The sender of the stdin channel of the exec bound to channel ch is held.
BoundExec(ch) == IsSome(exec_sessions[ch]) /\ Unwrap(exec_sessions[ch]).stdin_tx

\* Some ExecSession holds the sender of exec e's stdin channel.
HasSender(e) ==
    \E ch \in Channels :
       /\ IsSome(exec_sessions[ch])
       /\ Unwrap(exec_sessions[ch]).exec_id = e
       /\ Unwrap(exec_sessions[ch]).stdin_tx

\* data with try_send in the place of send: a message that finds the
\* channel full is dropped.
DataDroppedWhenFull(ch) ==
    /\ alive
    /\ HandlerIdle
    /\ channels[ch].type \in { "session", "direct-tcpip" }
    /\ ~channels[ch].closed
    /\ arrived' = [arrived EXCEPT ![ch] = @ + 1]
    /\ LET msg == << ch, arrived[ch] + 1 >>
           session == exec_sessions[ch]
       IN  IF IsSome(session) /\ Unwrap(session).stdin_tx
           THEN LET e == Unwrap(session).exec_id
                IN  IF stdin[e].rx = "open" /\ Len(stdin[e].queue) < StdinCapacity
                    THEN /\ stdin' = [stdin EXCEPT ![e].queue = Append(@, msg)]
                         /\ UNCHANGED data_call
                    ELSE UNCHANGED << stdin, data_call >>
           ELSE UNCHANGED << stdin, data_call >>
    /\ UNCHANGED sessVars

\* data (lines 696-708): tx.send returns at once when the receiver is gone
\* or the channel has room, and suspends the callback when it is full.
Data(ch) ==
    /\ alive
    /\ HandlerIdle
    /\ channels[ch].type \in { "session", "direct-tcpip" }
    /\ ~channels[ch].closed
    /\ arrived' = [arrived EXCEPT ![ch] = @ + 1]
    /\ LET msg == << ch, arrived[ch] + 1 >>
           session == exec_sessions[ch]
       IN  IF IsSome(session) /\ Unwrap(session).stdin_tx
           THEN LET e == Unwrap(session).exec_id
                IN  IF stdin[e].rx = "dropped"
                    THEN UNCHANGED << stdin, data_call >>
                    ELSE IF Len(stdin[e].queue) < StdinCapacity
                    THEN /\ stdin' = [stdin EXCEPT ![e].queue = Append(@, msg)]
                         /\ UNCHANGED data_call
                    ELSE /\ data_call' = Some([channel |-> ch, exec |-> e, msg |-> msg])
                         /\ UNCHANGED stdin
           ELSE UNCHANGED << stdin, data_call >>
    /\ UNCHANGED sessVars

\* The suspended tx.send completes, with room in the channel or with the
\* receiver gone, and data returns.
DataResume ==
    /\ IsSome(data_call)
    /\ LET e == Unwrap(data_call).exec
       IN  \/ /\ stdin[e].rx = "dropped"
              /\ UNCHANGED stdin
           \/ /\ stdin[e].rx = "open"
              /\ Len(stdin[e].queue) < StdinCapacity
              /\ stdin' = [stdin EXCEPT ![e].queue = Append(@, Unwrap(data_call).msg)]
    /\ data_call' = None
    /\ UNCHANGED << arrived, sessVars >>

\* The stdin task taking the newest message of the channel first.
StdinWriteNewest(e, ok) ==
    /\ e \in 1..Len(execs)
    /\ stdin[e].rx = "open"
    /\ stdin[e].queue # << >>
    /\ stdin' = IF ok
                THEN [stdin EXCEPT ![e].queue = SubSeq(@, 1, Len(@) - 1),
                                   ![e].written =
                                       Append(@, stdin[e].queue[Len(stdin[e].queue)])]
                ELSE StdinDropped(e)
    /\ UNCHANGED << arrived, data_call, sessVars >>

\* One turn of the stdin task (lines 1008-1012): it takes the next message
\* and writes it to the exec's input; a failed write ends the task.
StdinWrite(e, ok) ==
    /\ e \in 1..Len(execs)
    /\ stdin[e].rx = "open"
    /\ stdin[e].queue # << >>
    /\ stdin' = IF ok
                THEN [stdin EXCEPT ![e].queue = Tail(@),
                                   ![e].written = Append(@, Head(stdin[e].queue))]
                ELSE StdinDropped(e)
    /\ UNCHANGED << arrived, data_call, sessVars >>

\* recv returns None, the channel being empty and its sender dropped: the
\* stdin task ends and drops the exec's input.
StdinEnd(e) ==
    /\ e \in 1..Len(execs)
    /\ stdin[e].rx = "open"
    /\ stdin[e].queue = << >>
    /\ ~HasSender(e)
    /\ stdin' = StdinDropped(e)
    /\ UNCHANGED << arrived, data_call, sessVars >>

\* The end of the I/O task (lines 1098-1103): close is sent and the stdin
\* task aborted.
PumpCloseAbort(e) ==
    /\ PumpClose(e)
    /\ stdin' = StdinDropped(e)
    /\ UNCHANGED << arrived, data_call >>

(***************************************************************************)
(* ssh.rs: the gateway control commands.  A command line is a sequence of  *)
(* words and runs of whitespace (" ").                                     *)
(***************************************************************************)
IsWord(piece) == piece # " "

split_whitespace(line) == SelectSeq(line, IsWord)

RECURSIVE trim_start(_)
trim_start(line) ==
    IF line # << >> /\ Head(line) = " " THEN trim_start(Tail(line)) ELSE line

RECURSIVE trim_end(_)
trim_end(line) ==
    IF line # << >> /\ line[Len(line)] = " "
    THEN trim_end(SubSeq(line, 1, Len(line) - 1))
    ELSE line

trim(line) == trim_end(trim_start(line))

Help == [cmd |-> "Help", yes |-> FALSE, keep_workspace |-> FALSE,
         dry_run |-> FALSE, force |-> FALSE]

Destroy(yes, keep_workspace, dry_run, force) ==
    [cmd |-> "Destroy", yes |-> yes, keep_workspace |-> keep_workspace,
     dry_run |-> dry_run, force |-> force]

\* The loop over the arguments of destroy (lines 1168-1180).
RECURSIVE destroy_args(_, _)
destroy_args(args, d) ==
    IF args = << >> THEN Some(d)
    ELSE LET arg == Head(args)
         IN  IF arg = "--yes" \/ arg = "-y"
             THEN destroy_args(Tail(args), [d EXCEPT !.yes = TRUE])
             ELSE IF arg = "--keep-workspace"
             THEN destroy_args(Tail(args), [d EXCEPT !.keep_workspace = TRUE])
             ELSE IF arg = "--dry-run"
             THEN destroy_args(Tail(args), [d EXCEPT !.dry_run = TRUE])
             ELSE IF arg = "--force"
             THEN destroy_args(Tail(args), [d EXCEPT !.force = TRUE])
             ELSE Some(Help)

parse_gateway_control_command_needing_sub(cmd) ==
    LET it == split_whitespace(cmd)
    IN  IF Len(it) < 2 \/ it[1] # "agentman" THEN None
        ELSE IF it[2] = "destroy"
        THEN destroy_args(SubSeq(it, 3, Len(it)), Destroy(FALSE, FALSE, FALSE, FALSE))
        ELSE IF it[2] \in { "help", "--help", "-h" } THEN Some(Help)
        ELSE None

parse_gateway_control_command(cmd) ==
    LET it == split_whitespace(cmd)
    IN  IF it = << >> THEN None
        ELSE IF it[1] # "agentman" THEN None
        ELSE LET sub == IF Len(it) >= 2 THEN it[2] ELSE "help"
             IN  IF sub \in { "help", "--help", "-h" } THEN Some(Help)
                 ELSE IF sub = "destroy"
                 THEN destroy_args(SubSeq(it, 3, Len(it)), Destroy(FALSE, FALSE, FALSE, FALSE))
                 ELSE Some(Help)

(***************************************************************************)
(* docker.rs: destroy_workspace.  A target is <<"id", container id>> or    *)
(* <<"name", container name>>.                                             *)
(***************************************************************************)
MaxTargets == NContainers + 1

DestroyFaults ==
    { << "none", 0 >>, << "list", 0 >>, << "rmdir", 0 >>, << "save", 0 >> }
       \cup { << op, i >> : op \in { "stop", "remove" }, i \in 1..MaxTargets }

\* list_labeled_workspace_containers: the ids of the workspace's containers.
\* (Vec::sort puts the targets in the order of their strings; ids are taken
\* to sort by number and before names.)
RECURSIVE IdTargets(_)
IdTargets(ids) ==
    IF ids = {} THEN << >>
    ELSE LET id == CHOOSE i \in ids : \A j \in ids : i <= j
         IN  << << "id", id >> >> \o IdTargets(ids \ {id})

\* lines 611-628: the targets, sorted and without duplicates.
DestroyTargets(ws, cs, fault) ==
    LET from_state == IF IsSome(ws) /\ IsSome(Unwrap(ws).container_id)
                      THEN { Unwrap(Unwrap(ws).container_id) } ELSE {}
        labeled == IF fault = << "list", 0 >> THEN {} ELSE DOMAIN cs
        names == IF IsSome(ws) THEN << << "name", Unwrap(ws).container_name >> >> ELSE << >>
    IN  IdTargets(from_state \cup labeled) \o names

\* The container a target names, 0 when there is none (the engine answers 404).
Resolve(cs, target) ==
    IF target[1] = "id"
    THEN IF target[2] \in DOMAIN cs THEN target[2] ELSE 0
    ELSE IF \E id \in DOMAIN cs : cs[id].name = target[2]
         THEN CHOOSE id \in DOMAIN cs : cs[id].name = target[2]
         ELSE 0

Without(cs, id) == [c \in DOMAIN cs \ {id} |-> cs[c]]

\* The loop over the targets (lines 632-679) from target i on: the engine's
\* containers afterwards, the removed_containers and the warnings.
RECURSIVE DestroyLoop(_, _, _, _, _, _, _, _)
DestroyLoop(targets, i, cs, removed, warnings, calls, opts, fault) ==
    IF i > Len(targets)
    THEN [containers |-> cs, removed_containers |-> removed, warnings |-> warnings,
          calls |-> calls]
    ELSE LET target == targets[i]
         IN  IF opts.dry_run
             THEN DestroyLoop(targets, i + 1, cs,
                              Append(removed, << target, "(dry-run)" >>),
                              warnings, calls, opts, fault)
             ELSE LET id == Resolve(cs, target)
                      stop_fails == ~opts.force /\ id # 0 /\ fault = << "stop", i >>
                      stopped == IF ~opts.force /\ id # 0 /\ ~stop_fails
                                 THEN [cs EXCEPT ![id].running = FALSE]
                                 ELSE cs
                      w1 == IF stop_fails
                            THEN Append(warnings, << "stop container", target >>)
                            ELSE warnings
                      \* the engine refuses to remove a running container
                      \* unless forced
                      remove_fails == id # 0 /\ (fault = << "remove", i >>
                                                   \/ (stopped[id].running /\ ~opts.force))
                      made == calls \o (IF opts.force THEN << >>
                                         ELSE << EngineCall("stop", target) >>)
                                    \o << EngineCall("remove", target) >>
                  IN  IF id = 0
                      THEN DestroyLoop(targets, i + 1, stopped, removed, w1, made, opts, fault)
                      ELSE IF remove_fails
                      THEN DestroyLoop(targets, i + 1, stopped, removed,
                                       Append(w1, << "remove container", target >>),
                                       made, opts, fault)
                      ELSE DestroyLoop(targets, i + 1, Without(stopped, id),
                                       Append(removed, << target >>), w1, made, opts, fault)

DestroyOptionsWithoutDryRun(ctrl) ==
    [keep_workspace |-> ctrl.keep_workspace, force |-> ctrl.force, dry_run |-> FALSE]

DestroyOptions(ctrl) ==
    [keep_workspace |-> ctrl.keep_workspace, force |-> ctrl.force, dry_run |-> ctrl.dry_run]

\* ContainerManager::destroy_workspace: Ok(DestroyResult) or Err, with the
\* engine's containers, the workspace directory and the state entry as it
\* leaves them.
destroy_workspace(opts, fault) ==
    LET targets == DestroyTargets(workspaces, containers, fault)
        loop == DestroyLoop(targets, 1, containers, << >>,
                            IF fault = << "list", 0 >>
                            THEN << << "failed to list labeled containers" >> >>
                            ELSE << >>,
                            << >>, opts, fault)
        delete_dir == ~opts.keep_workspace /\ workspace_dir
        rmdir_fails == delete_dir /\ ~opts.dry_run /\ fault = << "rmdir", 0 >>
        dir == IF delete_dir /\ ~opts.dry_run /\ ~rmdir_fails THEN FALSE ELSE workspace_dir
        entry == IF opts.dry_run \/ rmdir_fails THEN workspaces ELSE None
        save_fails == ~opts.dry_run /\ ~rmdir_fails /\ fault = << "save", 0 >>
    IN  [ok |-> ~rmdir_fails /\ ~save_fails,
         containers |-> loop.containers,
         workspace_dir |-> dir,
         workspaces |-> entry,
         calls |-> loop.calls,
         result |-> [removed_containers |-> loop.removed_containers,
                     workspace_deleted |-> delete_dir /\ ~rmdir_fails,
                     state_entry_deleted |-> ~opts.dry_run /\ IsSome(workspaces),
                     warnings |-> loop.warnings]]

(***************************************************************************)
(* ssh.rs: the channel callbacks of the connection handler.  Each runs to  *)
(* its end before the next callback of the connection starts.              *)
(***************************************************************************)
\* config.port_forwarding
allow_local == TRUE
allow_nonlocal_destinations == FALSE

is_localhost(host) == host \in { "localhost", "127.0.0.1", "::1", "[::1]", "0.0.0.0" }

Hosts == { "localhost", "10.0.0.5" }

Channel(type, closed) == [type |-> type, closed |-> closed]

IsOpen(ch, type) == channels[ch] = Channel(type, FALSE)

NoSessions == [ch \in Channels |-> None]

ExecSession(exec_id) == [exec_id |-> exec_id, stdin_tx |-> TRUE]

\* The callback returns Err: the session ends, and the handler with it.
HandlerErr ==
    /\ alive' = FALSE
    /\ exec_sessions' = NoSessions
    /\ UNCHANGED << channels, execs, sent >>

\* channel_open_session
ChannelOpenSession(ch) ==
    /\ alive
    /\ channels[ch].type = "none"
    /\ channels' = [channels EXCEPT ![ch] = Channel("session", FALSE)]
    /\ UNCHANGED << alive, container_id, exec_sessions, execs, sent,
                    containers, workspaces, workspace_dir >>
    /\ engine_calls' = << >>

\* start_exec_session up to the spawn (lines 978-1003): the exec is
\* registered for the channel and its I/O task starts.
start_exec_session(ch, kind) ==
    /\ exec_sessions' = [exec_sessions EXCEPT ![ch] = Some(ExecSession(Len(execs) + 1))]
    /\ execs' = Append(execs, ExecTask(ch, kind))

\* shell_request, and exec_request from line 602 on: provision the
\* container, create and start the exec, confirm the request.
BridgeRequest(ch, fault) ==
    LET prov == get_or_create_container(fault)
    IN  /\ containers' = prov.containers
        /\ workspaces' = prov.workspaces
        /\ workspace_dir' = prov.workspace_dir
        /\ engine_calls' = prov.calls
        /\ IF ~prov.ok
           THEN HandlerErr /\ UNCHANGED container_id
           ELSE /\ container_id' = Some(prov.id)
                /\ IF fault \in { "create_exec", "start_exec" }
                   THEN HandlerErr
                   ELSE /\ start_exec_session(ch, "Session")
                        /\ sent' = Emit(ch, << Msg(Gateway, "success", << >>) >>)
                        /\ UNCHANGED << alive, channels >>

Authenticated == IsSome(github_user[SessConn]) /\ IsSome(project[SessConn])

\* shell_request
ShellRequest(ch, fault) ==
    /\ alive
    /\ IsOpen(ch, "session")
    /\ Len(execs) < MaxExecs
    /\ CanProvision
    /\ IF ~Authenticated
       THEN /\ HandlerErr
            /\ engine_calls' = << >>
            /\ UNCHANGED << container_id, containers, workspaces, workspace_dir >>
       ELSE BridgeRequest(ch, fault)

\* The gateway handled fewer control commands than the model follows.
RECURSIVE ControlHandled(_)
ControlHandled(chs) ==
    IF chs = {} THEN 0
    ELSE LET ch == CHOOSE c \in chs : TRUE
         IN  Len(SelectSeq(sent[ch], LAMBDA m : m.from = Gateway /\ m.kind = "close"))
                + ControlHandled(chs \ {ch})

NeedsConfirmationUnlessForced(d) ==
    ~d.dry_run /\ ~d.keep_workspace /\ ~d.yes /\ ~d.force

\* line 555
NeedsConfirmation(d) == ~d.dry_run /\ ~d.keep_workspace /\ ~d.yes

ControlReplyStatusFirst(exit_status, output) ==
    << Msg(Gateway, "success", << >>),
       Msg(Gateway, "exit_status", << exit_status >>),
       Msg(Gateway, "data", output),
       Msg(Gateway, "eof", << >>),
       Msg(Gateway, "close", << >>) >>

\* lines 587-598: what the control branch sends to the channel.
ControlReply(exit_status, output) ==
    << Msg(Gateway, "success", << >>) >>
       \o (IF output # << >> THEN << Msg(Gateway, "data", output) >> ELSE << >>)
       \o << Msg(Gateway, "exit_status", << exit_status >>),
             Msg(Gateway, "eof", << >>),
             Msg(Gateway, "close", << >>) >>

\* exec_request, the control branch (lines 546-600).
ControlRequest(ch, ctrl, dfault) ==
    /\ UNCHANGED << alive, channels, container_id, exec_sessions, execs >>
    /\ IF ctrl.cmd = "Help"
       THEN /\ sent' = Emit(ch, ControlReply(0, << "help" >>))
            /\ engine_calls' = << >>
            /\ UNCHANGED << containers, workspaces, workspace_dir >>
       ELSE IF NeedsConfirmation(ctrl)
       THEN /\ sent' = Emit(ch, ControlReply(2, << "refusing" >>))
            /\ engine_calls' = << >>
            /\ UNCHANGED << containers, workspaces, workspace_dir >>
       ELSE LET res == destroy_workspace(DestroyOptions(ctrl), dfault)
            IN  /\ containers' = res.containers
                /\ engine_calls' = res.calls
                /\ workspaces' = res.workspaces
                /\ workspace_dir' = res.workspace_dir
                /\ sent' = Emit(ch, IF res.ok
                                    THEN ControlReply(0, << "summary", res.result >>)
                                    ELSE ControlReply(1, << "failed" >>))

\* exec_request.  (String::from_utf8_lossy keeps a command that is UTF-8.)
ExecRequest(ch, command, fault, dfault) ==
    /\ alive
    /\ IsOpen(ch, "session")
    /\ IF ~Authenticated
       THEN /\ HandlerErr
            /\ engine_calls' = << >>
            /\ UNCHANGED << container_id, containers, workspaces, workspace_dir >>
       ELSE LET ctrl == parse_gateway_control_command(trim(command))
            IN  IF IsSome(ctrl)
                THEN /\ ControlHandled(Channels) < MaxControl
                     /\ ControlRequest(ch, Unwrap(ctrl), dfault)
                ELSE /\ Len(execs) < MaxExecs
                     /\ CanProvision
                     /\ BridgeRequest(ch, fault)

\* channel_open_direct_tcpip
ChannelOpenDirectTcpip(ch, host, fault) ==
    /\ alive
    /\ channels[ch].type = "none"
    /\ Len(execs) < MaxExecs
    /\ CanProvision
    /\ IF ~allow_local
       THEN /\ channels' = [channels EXCEPT ![ch] = Channel("refused", TRUE)]
            /\ engine_calls' = << >>
            /\ UNCHANGED << alive, container_id, exec_sessions, execs, sent,
                            containers, workspaces, workspace_dir >>
       ELSE IF ~Authenticated
       THEN /\ HandlerErr
            /\ engine_calls' = << >>
            /\ UNCHANGED << container_id, containers, workspaces, workspace_dir >>
       ELSE LET prov == IF IsSome(container_id)
                        THEN ProvisionResult(TRUE, Unwrap(container_id), containers,
                                             workspaces, workspace_dir, << >>)
                        ELSE get_or_create_container(fault)
            IN  /\ containers' = prov.containers
                /\ workspaces' = prov.workspaces
                /\ workspace_dir' = prov.workspace_dir
                /\ engine_calls' = prov.calls
                /\ IF ~prov.ok
                   THEN HandlerErr /\ UNCHANGED container_id
                   ELSE /\ container_id' = Some(prov.id)
                        /\ IF ~(is_localhost(host) \/ allow_nonlocal_destinations)
                           THEN /\ channels' = [channels EXCEPT ![ch] = Channel("refused", TRUE)]
                                /\ UNCHANGED << alive, exec_sessions, execs, sent >>
                           ELSE IF fault \in { "create_exec", "start_exec" }
                           THEN HandlerErr
                           ELSE /\ start_exec_session(ch, "TcpForward")
                                /\ channels' = [channels EXCEPT
                                                   ![ch] = Channel("direct-tcpip", FALSE)]
                                /\ UNCHANGED << alive, sent >>

\* channel_eof
ChannelEof(ch) ==
    /\ alive
    /\ channels[ch].type \in { "session", "direct-tcpip" }
    /\ ~channels[ch].closed
    /\ exec_sessions' =
          [exec_sessions EXCEPT
              ![ch] = IF IsSome(@) THEN Some([Unwrap(@) EXCEPT !.stdin_tx = FALSE]) ELSE @]
    /\ UNCHANGED << alive, channels, container_id, execs, sent,
                    containers, workspaces, workspace_dir >>
    /\ engine_calls' = << >>

\* channel_close
ChannelClose(ch) ==
    /\ alive
    /\ channels[ch].type \in { "session", "direct-tcpip" }
    /\ ~channels[ch].closed
    /\ channels' = [channels EXCEPT ![ch].closed = TRUE]
    /\ exec_sessions' = [exec_sessions EXCEPT ![ch] = None]
    /\ UNCHANGED << alive, container_id, execs, sent,
                    containers, workspaces, workspace_dir >>
    /\ engine_calls' = << >>

\* The client disconnects: run_stream's session ends and drops the handler.
Disconnect ==
    /\ alive
    /\ alive' = FALSE
    /\ exec_sessions' = NoSessions
    /\ UNCHANGED << channels, container_id, execs, sent,
                    containers, workspaces, workspace_dir, engine_calls >>

(***************************************************************************)
(* ssh.rs: remote port forwarding.  tcpip_forward binds a listener and      *)
(* spawns its accept loop; the loop spawns one task per accepted TCP        *)
(* connection, which asks the session to open a forwarded-tcpip channel and *)
(* relays what it reads.  A listener is [address, bind_addr, port, state];  *)
(* a connection task is [listener, pc, relayed], at its place in accept     *)
(* order.                                                                   *)
(***************************************************************************)
MaxListeners == 2
MaxTcpConns == 2
MaxChunks == 1

\* PortForwardingConfig, the fields tcpip_forward reads.
PortForwardingConfigs == [allow_remote : BOOLEAN, allow_gateway_ports : BOOLEAN]

\* impl Default for PortForwardingConfig
DefaultPortForwarding == [allow_remote |-> TRUE, allow_gateway_ports |-> FALSE]

\* The addresses a client asks tcpip-forward to listen on.
ForwardAddresses == { "", "*", "0.0.0.0", "localhost", "192.168.1.5" }

\* The ports a client asks for (0: any), and those the host hands out for 0.
ForwardPorts == { 0, 80 }
EphemeralPorts == { 1024 }

bind_address_as_requested(address, allow_gateway_ports) == address

\* lines 825-840: the address the listener is bound to.
bind_address(address, allow_gateway_ports) ==
    IF address = "" \/ address = "0.0.0.0" \/ address = "*"
    THEN IF allow_gateway_ports THEN "0.0.0.0" ELSE "127.0.0.1"
    ELSE IF is_localhost(address) THEN "127.0.0.1"
    ELSE IF allow_gateway_ports THEN address
    ELSE "127.0.0.1"

Listener(address, bind_addr, port) ==
    [address |-> address, bind_addr |-> bind_addr, port |-> port, state |-> "listening"]

\* TcpListener::bind fails on an address and port a listener holds.
InUse(bind_addr, port) ==
    \E l \in 1..Len(listeners) :
        /\ listeners[l].state = "listening"
        /\ listeners[l].port = port
        /\ \/ listeners[l].bind_addr = bind_addr
           \/ listeners[l].bind_addr = "0.0.0.0"
           \/ bind_addr = "0.0.0.0"

\* HashMap::insert
InsertForward(key, task) ==
    [k \in DOMAIN remote_forwards \cup {key} |->
        IF k = key THEN task ELSE remote_forwards[k]]

RemoveForwardsOfPort(key) ==
    [k \in { j \in DOMAIN remote_forwards : j[2] # key[2] } |-> remote_forwards[k]]

\* HashMap::remove
RemoveForward(key) ==
    [k \in DOMAIN remote_forwards \ {key} |-> remote_forwards[k]]

\* tcpip_forward.  bind_ok: nothing outside the gateway holds the address;
\* actual: the port the host hands out when the client asked for 0.
TcpipForward(address, port, bind_ok, actual) ==
    /\ alive
    /\ Len(listeners) < MaxListeners
    /\ LET bind_addr == bind_address(address, port_forwarding.allow_gateway_ports)
           bound == IF port = 0 THEN actual ELSE port
       IN  IF ~port_forwarding.allow_remote \/ ~bind_ok \/ InUse(bind_addr, bound)
           THEN UNCHANGED << remote_forwards, listeners >>
           ELSE /\ listeners' = Append(listeners, Listener(address, bind_addr, bound))
                /\ remote_forwards' =
                      InsertForward(<< address, bound >>, Len(listeners) + 1)
    /\ UNCHANGED << port_forwarding, tcp_conns, forwarded >>

\* JoinHandle::abort on a listener task: the accept loop ends at its await
\* and the listener closes; a task that ended already stays as it is.
Abort(task) ==
    [listeners EXCEPT ![task].state =
        IF @ = "listening" THEN "aborted" ELSE @]

\* cancel_tcpip_forward
CancelTcpipForward(address, port) ==
    /\ alive
    /\ IF << address, port >> \in DOMAIN remote_forwards
       THEN /\ listeners' = Abort(remote_forwards[<< address, port >>])
            /\ remote_forwards' = RemoveForward(<< address, port >>)
       ELSE UNCHANGED << remote_forwards, listeners >>
    /\ UNCHANGED << port_forwarding, tcp_conns, forwarded >>

TcpConn(l) == [listener |-> l, pc |-> "open", relayed |-> 0]

\* One turn of the accept loop (lines 859-907): a connection is accepted and
\* its task spawned, or accept fails and the loop ends.
Accept(l, ok) ==
    /\ l \in 1..Len(listeners)
    /\ listeners[l].state = "listening"
    /\ IF ok
       THEN /\ Len(tcp_conns) < MaxTcpConns
            /\ tcp_conns' = Append(tcp_conns, TcpConn(l))
            /\ UNCHANGED listeners
       ELSE /\ listeners' = [listeners EXCEPT ![l].state = "ended"]
            /\ UNCHANGED tcp_conns
    /\ UNCHANGED << port_forwarding, remote_forwards, forwarded >>

\* The connection task's channel_open_forwarded_tcpip (lines 866-874): the
\* open goes to the session, which the client confirms or not; with the
\* session gone the call fails.
OpenForwarded(t, confirmed) ==
    /\ t \in 1..Len(tcp_conns)
    /\ tcp_conns[t].pc = "open"
    /\ IF alive
       THEN /\ forwarded' = Append(forwarded, t)
            /\ tcp_conns' = [tcp_conns EXCEPT
                                ![t].pc = IF confirmed THEN "relay" ELSE "done"]
       ELSE /\ tcp_conns' = [tcp_conns EXCEPT ![t].pc = "done"]
            /\ UNCHANGED forwarded
    /\ UNCHANGED << port_forwarding, remote_forwards, listeners >>

\* One turn of the read loop (lines 881-893): bytes are read and sent as
\* channel data, or the stream is at its end or fails; channel.data fails
\* with the session gone.
Relay(t, read) ==
    /\ t \in 1..Len(tcp_conns)
    /\ tcp_conns[t].pc = "relay"
    /\ IF read = "bytes" /\ alive
       THEN /\ tcp_conns[t].relayed < MaxChunks
            /\ tcp_conns' = [tcp_conns EXCEPT ![t].relayed = @ + 1]
       ELSE tcp_conns' = [tcp_conns EXCEPT ![t].pc = "done"]
    /\ UNCHANGED << port_forwarding, remote_forwards, listeners, forwarded >>

\* The connection ends and its handler is dropped, remote_forwards with it:
\* a JoinHandle that is dropped leaves its task running.
DropHandler ==
    /\ remote_forwards' = << >>
    /\ UNCHANGED << port_forwarding, listeners, tcp_conns, forwarded >>

(***************************************************************************)
(* state.rs: the state file.  The document is key_to_github and            *)
(* workspaces; serialized, it is a sequence of pieces << tag, payload >>:  *)
(* an opening brace, one piece per entry, a closing brace.  A mutating     *)
(* call changes the document under the write lock, releases it, and then   *)
(* save() serializes under a read lock and writes the file.                *)
(***************************************************************************)
MaxStoreOps == 3

Piece(tag, payload) == << tag, payload >>

\* The entries of key_to_github whose fingerprints are in fps, by key number.
RECURSIVE KeyPieces(_, _)
KeyPieces(ktg, fps) ==
    IF fps = {} THEN << >>
    ELSE LET f == CHOOSE x \in fps : \A y \in fps : x[2] <= y[2]
         IN  << Piece("key", << f, ktg[f] >>) >> \o KeyPieces(ktg, fps \ {f})

\* serde_json::to_string_pretty of GatewayState
Serialize(ktg, ws) ==
    << Piece("{", << >>) >>
       \o KeyPieces(ktg, DOMAIN ktg)
       \o (IF IsSome(ws) THEN << Piece("workspace", ws) >> ELSE << >>)
       \o << Piece("}", << >>) >>

\* The text is one whole document: braces at its ends and entries between.
WellFormed(content) ==
    /\ Len(content) >= 2
    /\ content[1][1] = "{"
    /\ content[Len(content)][1] = "}"
    /\ \A i \in 2..(Len(content) - 1) : content[i][1] \in { "key", "workspace" }

\* serde_json::from_str into GatewayState: None for a text that is no whole
\* document; of entries with one key the last counts.
Parse(content) ==
    IF ~WellFormed(content) THEN None
    ELSE LET keyAt == { i \in 2..(Len(content) - 1) : content[i][1] = "key" }
             wsAt == { i \in 2..(Len(content) - 1) : content[i][1] = "workspace" }
             last(at) == CHOOSE i \in at : \A j \in at : j <= i
         IN  Some([key_to_github |->
                      [f \in { content[i][2][1] : i \in keyAt } |->
                          content[last({ i \in keyAt : content[i][2][1] = f })][2][2]],
                   workspaces |->
                      IF wsAt = {} THEN None ELSE content[last(wsAt)][2]])

\* write_all from the start of a file that holds `old`: what lies beyond
\* the written text stays.
Overwrite(old, content) ==
    content \o SubSeq(old, Len(content) + 1, Len(old))

StateFile(exists, content) == [exists |-> exists, content |-> content]

\* The mutating calls of the connections.
StoreOps ==
    { << "cache_key", << compute_fingerprint_from_pubkey(k),
                         KeyCacheEntry(u, KeyAlgorithm(k)) >> >> :
         k \in Keys, u \in { UserA, UserB } }
    \cup { << "set_workspace", WorkspaceInfo(0, id) >> : id \in ContainerIds }
    \cup { << "remove_workspace", << >> >> }

\* A save() holds the read lock from its first line to its return.
ReadLocked == \E q \in Conns : store_pc[q] \in { "create", "write" }

\* cache_key, set_workspace and remove_workspace up to the call of save():
\* the document changes under the write lock, which is then released.
StoreMutate(p, op) ==
    /\ ~load_failed
    /\ store_pc[p] = "idle"
    /\ store_ops < MaxStoreOps
    /\ ~ReadLocked
    /\ key_to_github' = IF op[1] = "cache_key"
                        THEN cache_key(op[2][1], op[2][2])
                        ELSE key_to_github
    /\ workspaces' = IF op[1] = "set_workspace" THEN Some(op[2])
                     ELSE IF op[1] = "remove_workspace" THEN None
                     ELSE workspaces
    /\ store_pc' = [store_pc EXCEPT ![p] = "save"]
    /\ store_ops' = store_ops + 1
    /\ UNCHANGED << state_file, store_content, load_failed >>

\* save, lines 96-104: the read lock is taken and the document serialized.
SaveSerialize(p) ==
    /\ ~load_failed
    /\ store_pc[p] = "save"
    /\ store_content' = [store_content EXCEPT ![p] = Serialize(key_to_github, workspaces)]
    /\ store_pc' = [store_pc EXCEPT ![p] = "create"]
    /\ UNCHANGED << key_to_github, workspaces, state_file, store_ops, load_failed >>

\* save, line 106, first half: tokio::fs::write creates the file, or
\* truncates the one there is.
WriteCreate(p) ==
    /\ ~load_failed
    /\ store_pc[p] = "create"
    /\ state_file' = StateFile(TRUE, << >>)
    /\ store_pc' = [store_pc EXCEPT ![p] = "write"]
    /\ UNCHANGED << key_to_github, workspaces, store_content, store_ops, load_failed >>

\* save, line 106, second half: the text is written from the start of the
\* file; the read lock is released on return.
WriteAll(p) ==
    /\ ~load_failed
    /\ store_pc[p] = "write"
    /\ state_file' = StateFile(TRUE, Overwrite(state_file.content, store_content[p]))
    /\ store_pc' = [store_pc EXCEPT ![p] = "idle"]
    /\ store_content' = [store_content EXCEPT ![p] = << >>]
    /\ UNCHANGED << key_to_github, workspaces, store_ops, load_failed >>

\* The process stops, wherever its calls are, and starts again:
\* StateManager::load.
Restart ==
    /\ ~load_failed
    /\ store_pc' = [p \in Conns |-> "idle"]
    /\ store_content' = [p \in Conns |-> << >>]
    /\ LET loaded == IF state_file.exists
                     THEN Parse(state_file.content)
                     ELSE Some([key_to_github |-> << >>, workspaces |-> None])
       IN  IF IsSome(loaded)
           THEN /\ key_to_github' = Unwrap(loaded).key_to_github
                /\ workspaces' = Unwrap(loaded).workspaces
                /\ UNCHANGED load_failed
           ELSE /\ load_failed' = TRUE
                /\ UNCHANGED << key_to_github, workspaces >>
    /\ UNCHANGED << state_file, store_ops >>

(***************************************************************************)
(* Initial states and the specifications.                                  *)
(***************************************************************************)
\* ConnectionHandler::new for every connection, with an empty state document.
InitAuth ==
    /\ key_to_github = << >>
    /\ github_user = [c \in Conns |-> None]
    /\ project = [c \in Conns |-> None]
    /\ pending_github_user = [c \in Conns |-> None]
    /\ offered_key_fingerprints = [c \in Conns |-> << >>]
    /\ pc = [c \in Conns |-> "idle"]
    /\ call = [c \in Conns |-> NoCall]
    /\ auth_result = << 0, "none" >>

\* The connection SessConn right after auth_publickey_offered accepted key 1
\* for the user name "p+a" (verified with the provider and cached).
InitAuthenticated ==
    /\ key_to_github = (compute_fingerprint_from_pubkey(1) :> KeyCacheEntry(UserA, KeyAlgorithm(1)))
    /\ github_user = [c \in Conns |-> IF c = SessConn THEN Some(UserA) ELSE None]
    /\ project = [c \in Conns |-> IF c = SessConn THEN Some(<< "p" >>) ELSE None]
    /\ pending_github_user = [c \in Conns |-> None]
    /\ offered_key_fingerprints =
          [c \in Conns |-> IF c = SessConn THEN << compute_fingerprint_from_pubkey(1) >>
                           ELSE << >>]
    /\ pc = [c \in Conns |-> "idle"]
    /\ call = [c \in Conns |-> NoCall]
    /\ auth_result = << SessConn, "Accept" >>

\* No channel yet, nothing provisioned.
InitSession ==
    /\ alive = TRUE
    /\ channels = [ch \in Channels |-> Channel("none", FALSE)]
    /\ container_id = None
    /\ exec_sessions = NoSessions
    /\ execs = << >>
    /\ sent = [ch \in Channels |-> << >>]

InitEngine ==
    /\ engine_calls = << >>
    /\ containers = << >>
    /\ workspaces = None
    /\ workspace_dir = FALSE

\* What earlier sessions and the host's administrator can have left behind:
\* any containers of the workspace, running or stopped, a state entry that
\* names container 1 or none, the directory present or not.
EngineStates ==
    UNION { [ids -> { [name |-> n, running |-> r, paused |-> FALSE] : n \in {0}, r \in BOOLEAN }]
               : ids \in SUBSET ContainerIds }

NamedById(cs) == [id \in DOMAIN cs |-> [cs[id] EXCEPT !.name = id - 1]]

InitLeftBehind ==
    /\ engine_calls = << >>
    /\ containers \in { NamedById(cs) : cs \in EngineStates }
    /\ workspaces \in { None, Some(WorkspaceInfo(0, 1)) }
    /\ workspace_dir \in BOOLEAN

ForwardIdle ==
    /\ remote_forwards = << >>
    /\ listeners = << >>
    /\ tcp_conns = << >>
    /\ forwarded = << >>

\* The configuration's defaults, no remote forward.
InitForward ==
    /\ port_forwarding = DefaultPortForwarding
    /\ ForwardIdle

\* No state file yet, no call of the StateManager under way.
InitFile ==
    /\ state_file = StateFile(FALSE, << >>)
    /\ store_pc = [p \in Conns |-> "idle"]
    /\ store_content = [p \in Conns |-> << >>]
    /\ store_ops = 0
    /\ load_failed = FALSE

\* No data has arrived, no stdin channel has been made.
InitStdin ==
    /\ arrived = [ch \in Channels |-> 0]
    /\ stdin = [e \in BridgeIds |-> NoStdin]
    /\ data_call = None

\* No call of a pure function, no provisioning under way.
NoProvisioning == [c \in Conns |-> [pc |-> "idle", name |-> 0, id |-> 0]]

InitCalls ==
    /\ fn_arg = << >>
    /\ fn_ret = None
    /\ provisioning = NoProvisioning
    /\ InitStdin

Init ==
    InitAuth /\ InitSession /\ InitEngine /\ InitForward /\ InitFile /\ InitCalls

OfferKey ==
    /\ \E c \in Conns, user \in SshUsers, k \in Keys : AuthPublickeyOffered(c, user, k)
    /\ UNCHANGED << sessVars, restVars >>
KeyboardInteractive ==
    /\ \E c \in Conns, r \in KbdResponses : AuthKeyboardInteractive(c, r)
    /\ UNCHANGED << sessVars, restVars >>
SignedKey ==
    /\ \E c \in Conns, k \in Keys : AuthPublickey(c, k)
    /\ UNCHANGED << sessVars, restVars >>
ProviderAnswer ==
    /\ \E c \in Conns, t \in BOOLEAN : VerifyKey(c, t)
    /\ UNCHANGED << sessVars, restVars >>
CacheLookup ==
    /\ \E c \in Conns : CacheCheck(c)
    /\ UNCHANGED << sessVars, restVars >>
CacheInsert ==
    /\ \E c \in Conns : CacheWrite(c)
    /\ UNCHANGED << sessVars, restVars >>
NewConnection ==
    /\ \E c \in Conns : Reconnect(c)
    /\ UNCHANGED << sessVars, restVars >>

Next ==
    \/ OfferKey
    \/ KeyboardInteractive
    \/ SignedKey
    \/ ProviderAnswer
    \/ CacheLookup
    \/ CacheInsert
    \/ NewConnection

\* Authentication of NConns concurrent connections.
SpecAuth == Init /\ [][Next]_vars

\* Commands of exec requests that are no gateway control commands.
ExecCommands == { << "ls" >>, << "destroy", " ", "--yes" >> }

NoFault == << "none", 0 >>

OpenSession ==
    /\ \E ch \in Channels : ChannelOpenSession(ch)
    /\ UNCHANGED << authVars, restVars >>
Shell ==
    /\ \E ch \in Channels, fault \in ProvisionFaults : ShellRequest(ch, fault)
    /\ UNCHANGED << authVars, restVars >>
Exec ==
    /\ \E ch \in Channels, command \in ExecCommands, fault \in ProvisionFaults :
          ExecRequest(ch, command, fault, NoFault)
    /\ UNCHANGED << authVars, restVars >>
DirectTcpip ==
    /\ \E ch \in Channels, host \in Hosts, fault \in ProvisionFaults :
          ChannelOpenDirectTcpip(ch, host, fault)
    /\ UNCHANGED << authVars, restVars >>
ClientEof ==
    /\ \E ch \in Channels : ChannelEof(ch)
    /\ UNCHANGED << authVars, restVars >>
ClientClose ==
    /\ \E ch \in Channels : ChannelClose(ch)
    /\ UNCHANGED << authVars, restVars >>
ClientDisconnect ==
    /\ Disconnect
    /\ UNCHANGED << authVars, restVars >>
StreamOutput ==
    /\ \E e \in 1..MaxExecs, item \in StreamItems : PumpOutput(e, item)
    /\ UNCHANGED << authVars, restVars >>
Poll ==
    /\ \E e \in 1..MaxExecs, script \in InspectScripts : PumpPoll(e, script)
    /\ UNCHANGED << authVars, restVars >>
SendExitStatus ==
    /\ \E e \in 1..MaxExecs : PumpExitStatus(e)
    /\ UNCHANGED << authVars, restVars >>
SendEof ==
    /\ \E e \in 1..MaxExecs : PumpEof(e)
    /\ UNCHANGED << authVars, restVars >>
SendClose ==
    /\ \E e \in 1..MaxExecs : PumpClose(e)
    /\ UNCHANGED << authVars, restVars >>

NextExec ==
    \/ OpenSession
    \/ Shell
    \/ Exec
    \/ DirectTcpip
    \/ ClientEof
    \/ ClientClose
    \/ ClientDisconnect
    \/ StreamOutput
    \/ Poll
    \/ SendExitStatus
    \/ SendEof
    \/ SendClose

\* One authenticated connection with its channels and exec bridges.
InitExec ==
    /\ InitAuthenticated /\ InitSession /\ InitEngine /\ InitForward /\ InitFile
    /\ InitCalls

SpecExec == InitExec /\ [][NextExec]_vars

\* The I/O task is a spawned tokio task: the runtime keeps running it, so
\* each of its steps after the stream loop is taken once it is due.  The
\* stream loop itself waits for the exec, which need not ever end.
PumpFairness(e) ==
    /\ WF_vars(\E script \in InspectScripts : PumpPoll(e, script) /\ UNCHANGED << authVars, restVars >>)
    /\ WF_vars(PumpExitStatus(e) /\ UNCHANGED << authVars, restVars >>)
    /\ WF_vars(PumpEof(e) /\ UNCHANGED << authVars, restVars >>)
    /\ WF_vars(PumpClose(e) /\ UNCHANGED << authVars, restVars >>)

SpecExecFair == SpecExec /\ \A e \in 1..MaxExecs : PumpFairness(e)

\* The command lines `agentman destroy` with every set of its four flags.
FlagWords == << "--yes", "--keep-workspace", "--dry-run", "--force" >>

RECURSIVE FlagLine(_, _)
FlagLine(flags, i) ==
    IF i > Len(FlagWords) THEN << >>
    ELSE (IF FlagWords[i] \in flags THEN << " ", FlagWords[i] >> ELSE << >>)
            \o FlagLine(flags, i + 1)

DestroyCommands ==
    { << "agentman", " ", "destroy" >> \o FlagLine(flags, 1) :
         flags \in SUBSET { FlagWords[i] : i \in 1..Len(FlagWords) } }

ControlCommands ==
    DestroyCommands
       \cup { << "agentman" >>,
              << " ", "agentman", " ", "destroy", " ", "-y", " " >>,
              << "agentman", " ", "destroy", " ", "--force", " ", "--bogus" >>,
              << "agentman", " ", "status" >> }

\* A dry run calls the engine only to list the containers.
DryRunFaults == { NoFault, << "list", 0 >> }

\* The engine calls that can fail while the command runs.
FaultsOf(command) ==
    LET ctrl == parse_gateway_control_command(trim(command))
    IN  IF IsSome(ctrl) /\ Unwrap(ctrl).cmd = "Destroy" /\ ~NeedsConfirmation(Unwrap(ctrl))
        THEN IF Unwrap(ctrl).dry_run THEN DryRunFaults ELSE DestroyFaults
        ELSE { NoFault }

ControlExec ==
    /\ ControlHandled(Channels) < MaxControl
    /\ \E ch \in Channels, command \in ControlCommands :
          \E dfault \in FaultsOf(command) : ExecRequest(ch, command, "none", dfault)
    /\ UNCHANGED << authVars, restVars >>

NextControl ==
    \/ OpenSession
    \/ ControlExec
    \/ ClientClose
    \/ ClientDisconnect

\* One authenticated connection that runs gateway control commands on what
\* earlier sessions left behind.
InitControl ==
    /\ InitAuthenticated /\ InitSession /\ InitLeftBehind /\ InitForward /\ InitFile
    /\ InitCalls

SpecControl == InitControl /\ [][NextControl]_vars

(***************************************************************************)
(* docker.rs: parse_memory_limit.  A number is kept as its sign and the    *)
(* decimal digits of its magnitude, without leading zeros, since the byte   *)
(* counts do not fit the model checker's integers; a product is the number  *)
(* and the power of two it is multiplied by.                                *)
(***************************************************************************)
MaxMemLen == 3

Digits == << "0", "1", "2", "3", "4", "5", "6", "7", "8", "9" >>

IsDigit(ch) == \E d \in 1..10 : Digits[d] = ch

DigitOf(ch) == (CHOOSE d \in 1..10 : Digits[d] = ch) - 1

\* str::to_lowercase, on the letters of the suffixes.
to_lowercase(s) ==
    [i \in 1..Len(s) |->
        IF s[i] = "G" THEN "g" ELSE IF s[i] = "M" THEN "m"
        ELSE IF s[i] = "K" THEN "k" ELSE s[i]]

\* str::trim_end_matches(ch): every ch at the end is taken off.
RECURSIVE trim_end_matches(_, _)
trim_end_matches(s, ch) ==
    IF s # << >> /\ s[Len(s)] = ch
    THEN trim_end_matches(SubSeq(s, 1, Len(s) - 1), ch)
    ELSE s

\* The digits without leading zeros ("0" for zero).
RECURSIVE Canonical(_)
Canonical(digits) ==
    IF Len(digits) > 1 /\ Head(digits) = "0" THEN Canonical(Tail(digits)) ELSE digits

\* a < b for canonical digit strings.
DecLess(a, b) ==
    \/ Len(a) < Len(b)
    \/ /\ Len(a) = Len(b)
       /\ \E i \in 1..Len(a) :
             /\ DigitOf(a[i]) < DigitOf(b[i])
             /\ \A j \in 1..(i - 1) : a[j] = b[j]

\* 2^63, 2^53, 2^43 and 2^33 in decimal digits.
TwoTo63 == << "9", "2", "2", "3", "3", "7", "2", "0", "3", "6", "8", "5", "4", "7", "7",
              "5", "8", "0", "8" >>
TwoTo53 == << "9", "0", "0", "7", "1", "9", "9", "2", "5", "4", "7", "4", "0", "9", "9", "2" >>
TwoTo43 == << "8", "7", "9", "6", "0", "9", "3", "0", "2", "2", "2", "0", "8" >>
TwoTo33 == << "8", "5", "8", "9", "9", "3", "4", "5", "9", "2" >>

\* magnitude * 2^shift, negated if neg, is outside i64: the magnitude is at
\* least 2^(63 - shift), or more than it for a negative number.
OutsideI64(neg, magnitude, shift) ==
    LET limit == IF shift = 30 THEN TwoTo33 ELSE IF shift = 20 THEN TwoTo43
                 ELSE IF shift = 10 THEN TwoTo53 ELSE TwoTo63
    IN  IF neg THEN DecLess(limit, magnitude) ELSE ~DecLess(magnitude, limit)

\* str::parse::<i64>: an optional sign and one or more digits, within i64.
ParseI64(s) ==
    LET signed == s # << >> /\ s[1] \in { "+", "-" }
        digits == IF signed THEN Tail(s) ELSE s
        neg == signed /\ s[1] = "-" /\ Canonical(digits) # << "0" >>
    IN  IF digits = << >> \/ \E i \in 1..Len(digits) : ~IsDigit(digits[i])
        THEN None
        ELSE IF OutsideI64(neg, Canonical(digits), 0) THEN None
        ELSE Some([neg |-> neg, magnitude |-> Canonical(digits)])

Bytes(neg, magnitude, shift) == << "Ok", neg, magnitude, shift >>

\* parse_memory_limit.  num * mult outside i64 panics in a build with
\* overflow checks and wraps in one without: the low 64 bits of the product.
parse_memory_limit(s, overflow_checks) ==
    LET t == to_lowercase(trim(s))
        last == IF t = << >> THEN "" ELSE t[Len(t)]
        num == IF last \in { "g", "m", "k" } THEN trim_end_matches(t, last) ELSE t
        shift == IF last = "g" THEN 30 ELSE IF last = "m" THEN 20
                 ELSE IF last = "k" THEN 10 ELSE 0
        parsed == ParseI64(num)
    IN  IF ~IsSome(parsed) THEN << "Err" >>
        ELSE LET n == Unwrap(parsed)
             IN  IF OutsideI64(n.neg, n.magnitude, shift)
                 THEN IF overflow_checks THEN << "Panic" >>
                      ELSE << "Wrapped", n.neg, n.magnitude, shift >>
                 ELSE Bytes(n.neg, n.magnitude, shift)

(* Calls of the pure functions of github.rs on strings. *)
MaxNameLen == 3
MaxPlusLen == 5

\* The strings over chars of length n, and of length at most n.
RECURSIVE StringsOfLen(_, _)
StringsOfLen(chars, n) ==
    IF n = 0 THEN { << >> }
    ELSE { << c >> \o t : c \in chars, t \in StringsOfLen(chars, n - 1) }

StringsUpTo(chars, n) == UNION { StringsOfLen(chars, k) : k \in 0..n }

Repeat(ch, n) == [i \in 1..n |-> ch]

\* Short strings over letters, digits and the characters the validators
\* look for; strings at the length limits; user names with '+'.
NameInputs ==
    StringsUpTo({ "a", "Z", "0", "-", "_", ".", "/", " ", "é" }, MaxNameLen)
       \cup { Repeat("a", n) : n \in { GithubUsernameMax, GithubUsernameMax + 1,
                                      ProjectNameMax, ProjectNameMax + 1 } }
       \cup StringsUpTo({ "a", "-", "+" }, MaxPlusLen)

\* The function f returned result.
CallResult(f, result) == Some(<< f, result >>)

ValidateProjectName ==
    /\ fn_ret = None
    /\ fn_ret' = CallResult("validate_project_name", validate_project_name(fn_arg))
    /\ UNCHANGED << authVars, sessVars, fwdVars, fileVars, provVars, stdinVars, fn_arg >>
ValidateGithubUsername ==
    /\ fn_ret = None
    /\ fn_ret' = CallResult("validate_github_username", validate_github_username(fn_arg))
    /\ UNCHANGED << authVars, sessVars, fwdVars, fileVars, provVars, stdinVars, fn_arg >>
ParseSshUsername ==
    /\ fn_ret = None
    /\ fn_ret' = CallResult("parse_ssh_username", parse_ssh_username(fn_arg))
    /\ UNCHANGED << authVars, sessVars, fwdVars, fileVars, provVars, stdinVars, fn_arg >>

NextNames ==
    \/ ValidateProjectName
    \/ ValidateGithubUsername
    \/ ParseSshUsername

InitNames ==
    /\ InitAuth /\ InitSession /\ InitEngine /\ InitForward /\ InitFile
    /\ fn_arg \in NameInputs
    /\ fn_ret = None
    /\ provisioning = NoProvisioning
    /\ InitStdin

\* One call of a validator or of parse_ssh_username on any of the inputs.
SpecNames == InitNames /\ [][NextNames]_vars

\* Short strings over digits, suffixes, signs and a blank; the limits of the
\* unit tests; and limits at the edge of i64.
MemoryInputs ==
    StringsUpTo({ "4", "0", "g", "G", "m", "k", "-", "+", " " }, MaxMemLen)
       \cup { << "1", "0", "2", "4", "k" >>, << "5", "1", "2", "m" >>,
              << "1", "0", "0", "0" >>, << "1", ".", "5", "g" >>, << "4", "g", "b" >>,
              TwoTo33 \o << "g" >>, TwoTo63, SubSeq(TwoTo63, 1, 18) }

ParseMemoryLimit ==
    /\ fn_ret = None
    /\ \E overflow_checks \in BOOLEAN :
          fn_ret' = CallResult("parse_memory_limit",
                               parse_memory_limit(fn_arg, overflow_checks))
    /\ UNCHANGED << authVars, sessVars, fwdVars, fileVars, provVars, stdinVars, fn_arg >>

NextMemory == ParseMemoryLimit

InitMemory ==
    /\ InitAuth /\ InitSession /\ InitEngine /\ InitForward /\ InitFile
    /\ fn_arg \in MemoryInputs
    /\ fn_ret = None
    /\ provisioning = NoProvisioning
    /\ InitStdin

\* One call of parse_memory_limit on any of the inputs.
SpecMemory == InitMemory /\ [][NextMemory]_vars

(***************************************************************************)
(* One authenticated connection whose channels carry client data to the    *)
(* stdin of their execs, while the execs' output is pumped back.           *)
(***************************************************************************)
MaxRouted == 2

MaxPumped == 1

RECURSIVE ArrivedUpTo(_)
ArrivedUpTo(ch) == IF ch = 0 THEN 0 ELSE arrived[ch] + ArrivedUpTo(ch - 1)

TotalArrived == ArrivedUpTo(NChannels)

\* What leaves the stdin side alone, and what the stdin side leaves alone.
OutsideSession == UNCHANGED << authVars, restVars >>

OutsideStdin == UNCHANGED << authVars, fwdVars, fileVars, pureVars, provVars >>

\* The exec has ended with code 0 when the task asks.
ExitedScript == [running_polls |-> 0, final |-> InspectOk(Some(FALSE), Some(0))]

BridgeOpenSession ==
    /\ HandlerIdle
    /\ \E ch \in Channels : ChannelOpenSession(ch)
    /\ OutsideSession

\* shell_request, with every engine call succeeding.
BridgeShell ==
    /\ HandlerIdle
    /\ alive
    /\ Authenticated
    /\ Len(execs) < MaxBridges
    /\ \E ch \in Channels : IsOpen(ch, "session") /\ BridgeRequest(ch, "none")
    /\ OutsideSession

BridgeData ==
    /\ TotalArrived < MaxRouted
    /\ \E ch \in Channels : Data(ch)
    /\ OutsideStdin

BridgeStdinWrite ==
    /\ \E e \in BridgeIds, ok \in BOOLEAN : StdinWrite(e, ok)
    /\ OutsideStdin

BridgeStdinEnd ==
    /\ \E e \in BridgeIds : StdinEnd(e)
    /\ OutsideStdin

BridgeEof ==
    /\ HandlerIdle
    /\ \E ch \in Channels : ChannelEof(ch)
    /\ OutsideSession

BridgeClose ==
    /\ HandlerIdle
    /\ \E ch \in Channels : ChannelClose(ch)
    /\ OutsideSession

BridgeOutput ==
    /\ \E e \in BridgeIds, item \in { "StdOut", "End" } :
          /\ item = "StdOut" => FramesRead(execs) < MaxPumped
          /\ PumpOutput(e, item)
    /\ OutsideSession

BridgePoll ==
    /\ \E e \in BridgeIds : PumpPoll(e, ExitedScript)
    /\ OutsideSession

BridgeExitStatus ==
    /\ \E e \in BridgeIds : PumpExitStatus(e)
    /\ OutsideSession

BridgeSendEof ==
    /\ \E e \in BridgeIds : PumpEof(e)
    /\ OutsideSession

BridgeSendClose ==
    /\ \E e \in BridgeIds : PumpCloseAbort(e)
    /\ OutsideStdin

NextBridge ==
    \/ BridgeOpenSession
    \/ BridgeShell
    \/ BridgeData
    \/ BridgeStdinWrite
    \/ BridgeStdinEnd
    \/ BridgeEof
    \/ BridgeClose
    \/ BridgeOutput
    \/ BridgePoll
    \/ BridgeExitStatus
    \/ BridgeSendEof
    \/ BridgeSendClose

SpecBridge == InitExec /\ [][NextBridge]_vars

(***************************************************************************)
(* One authenticated connection with one exec, and a client that sends     *)
(* more data than the exec's stdin channel holds.                          *)
(***************************************************************************)
MaxData == 34

PressureOpenSession ==
    /\ HandlerIdle
    /\ \E ch \in Channels : ChannelOpenSession(ch)
    /\ OutsideSession

PressureShell ==
    /\ HandlerIdle
    /\ \E ch \in Channels : ShellRequest(ch, "none")
    /\ OutsideSession

\* Data for an exec whose stdin task is there to take it.
PressureData ==
    /\ TotalArrived < MaxData
    /\ \E ch \in Channels :
          /\ BoundExec(ch)
          /\ stdin[Unwrap(exec_sessions[ch]).exec_id].rx = "open"
          /\ Data(ch)
    /\ OutsideStdin

PressureResume ==
    /\ DataResume
    /\ OutsideStdin

PressureStdinWrite ==
    /\ \E e \in BridgeIds, ok \in BOOLEAN : StdinWrite(e, ok)
    /\ OutsideStdin

PressureStdinEnd ==
    /\ \E e \in BridgeIds : StdinEnd(e)
    /\ OutsideStdin

PressureEof ==
    /\ HandlerIdle
    /\ \E ch \in Channels : ChannelEof(ch)
    /\ OutsideSession

PressureClose ==
    /\ HandlerIdle
    /\ \E ch \in Channels : ChannelClose(ch)
    /\ OutsideSession

\* The exec's output ends and its task runs to its end.
PressureOutputEnd ==
    /\ \E e \in BridgeIds : PumpOutput(e, "End")
    /\ OutsideSession

PressurePoll ==
    /\ \E e \in BridgeIds : PumpPoll(e, ExitedScript)
    /\ OutsideSession

PressureExitStatus ==
    /\ \E e \in BridgeIds : PumpExitStatus(e)
    /\ OutsideSession

PressureSendEof ==
    /\ \E e \in BridgeIds : PumpEof(e)
    /\ OutsideSession

PressureSendClose ==
    /\ \E e \in BridgeIds : PumpCloseAbort(e)
    /\ OutsideStdin

NextBackpressure ==
    \/ PressureOpenSession
    \/ PressureShell
    \/ PressureData
    \/ PressureResume
    \/ PressureStdinWrite
    \/ PressureStdinEnd
    \/ PressureEof
    \/ PressureClose
    \/ PressureOutputEnd
    \/ PressurePoll
    \/ PressureExitStatus
    \/ PressureSendEof
    \/ PressureSendClose

SpecBackpressure == InitExec /\ [][NextBackpressure]_vars

\* The gateway's own steps are taken when they can be: a suspended send
\* completes once the channel has room or its receiver is gone, and the
\* I/O task, once the exec's output has ended, runs to its end.  Nothing
\* makes the exec read its stdin or end.
SpecBackpressureFair ==
    /\ SpecBackpressure
    /\ WF_vars(PressureResume)
    /\ WF_vars(PressurePoll)
    /\ WF_vars(PressureExitStatus)
    /\ WF_vars(PressureSendEof)
    /\ WF_vars(PressureSendClose)

(***************************************************************************)
(* docker.rs: get_or_create_container on what it can find: any containers  *)
(* of the workspace, running, stopped or paused, and an entry that names   *)
(* container 1 or 2, names no container, or no entry.                      *)
(***************************************************************************)
RediscoveryFaults == ProvisionFaults \cup { "unpause" }

\* The container states the engine reports: a paused container is running.
ContainerStates ==
    { [name |-> 0, running |-> r, paused |-> p] : r, p \in BOOLEAN } \
       { [name |-> 0, running |-> FALSE, paused |-> TRUE] }

RecordedEntries ==
    { None, Some(WorkspaceInfo(0, 1)), Some(WorkspaceInfo(1, 2)),
      Some([WorkspaceInfo(0, 1) EXCEPT !.container_id = None]) }

\* The container the entry names, if it names one that exists.
Resolves ==
    /\ IsSome(workspaces)
    /\ IsSome(Unwrap(workspaces).container_id)
    /\ Unwrap(Unwrap(workspaces).container_id) \in DOMAIN containers

\* One call of get_or_create_container; fn_arg keeps which engine call
\* failed, if one did, and the entry the call found.
Rediscover ==
    /\ Resolves \/ CanProvision
    /\ \E fault \in RediscoveryFaults :
          LET prov == get_or_create_container(fault)
          IN  /\ fn_arg' = << fault, workspaces >>
              /\ fn_ret' = CallResult("get_or_create_container", << prov.ok, prov.id >>)
              /\ containers' = prov.containers
              /\ workspaces' = prov.workspaces
              /\ workspace_dir' = prov.workspace_dir
              /\ engine_calls' = prov.calls
    /\ UNCHANGED << authVars, alive, channels, container_id, exec_sessions, execs, sent,
                    fwdVars, fileVars, provVars, stdinVars >>

NextRediscovery == Rediscover

InitRediscovery ==
    /\ InitAuth /\ InitSession /\ InitForward /\ InitFile
    /\ engine_calls = << >>
    /\ containers \in { NamedById(cs) :
                           cs \in UNION { [ids -> ContainerStates] :
                                             ids \in SUBSET ContainerIds } }
    /\ workspaces \in RecordedEntries
    /\ workspace_dir \in BOOLEAN
    /\ fn_arg = << >>
    /\ fn_ret = None
    /\ provisioning = NoProvisioning
    /\ InitStdin

SpecRediscovery == InitRediscovery /\ [][NextRediscovery]_vars

(***************************************************************************)
(* docker.rs: ensure_unique_name over the names the engine has.  fn_arg is *)
(* the set of names taken, as suffix numbers (0: the base name itself).    *)
(***************************************************************************)
MaxTaken == 101

\* Names left free inside a run of taken names (0 - 1: none).
Holes == { 0 - 1, 0, 1, UniqueNameLimit }

TakenNames == { (0..k) \ {h} : k \in (0 - 1)..MaxTaken, h \in Holes }

\* Containers that have the names.
Named(names) == [n \in names |-> [name |-> n, running |-> FALSE, paused |-> FALSE]]

EnsureUniqueName ==
    /\ fn_ret = None
    /\ fn_ret' = CallResult("ensure_unique_name", ensure_unique_name(Named(fn_arg), 0))
    /\ UNCHANGED << authVars, sessVars, fwdVars, fileVars, fn_arg, provVars, stdinVars >>

NextNaming == EnsureUniqueName

InitNaming ==
    /\ InitAuth /\ InitSession /\ InitEngine /\ InitForward /\ InitFile
    /\ fn_arg \in TakenNames
    /\ fn_ret = None
    /\ provisioning = NoProvisioning
    /\ InitStdin

SpecNaming == InitNaming /\ [][NextNaming]_vars

(***************************************************************************)
(* docker.rs: get_or_create_container called by the connections at the     *)
(* same time for one workspace, one step per await.  provisioning[c] is    *)
(* where the call of connection c is, the container name it settled on     *)
(* and the container id it holds; in "bound" the call has returned Ok(id)  *)
(* and the handler keeps id as its container_id.                           *)
(***************************************************************************)
Provisioning(at, name, id) == [pc |-> at, name |-> name, id |-> id]

ProvisionFailed == Provisioning("failed", 0, 0)

\* What a step of get_or_create_container leaves alone.
OutsideProvisioning ==
    UNCHANGED << authVars, alive, channels, container_id, exec_sessions, execs, sent,
                 engine_calls, fwdVars, fileVars, pureVars, stdinVars >>

\* get_or_create_container is called: ensure_workspace_writable (212-214).
ProvisionCall ==
    /\ \E c \in Conns :
          /\ provisioning[c].pc \in {"idle", "bound", "failed"}
          /\ provisioning' = [provisioning EXCEPT ![c] = Provisioning("lookup", 0, 0)]
    /\ workspace_dir' = TRUE
    /\ UNCHANGED << containers, workspaces >>
    /\ OutsideProvisioning

\* state.get_workspace (217-218).
ProvisionLookup ==
    /\ \E c \in Conns :
          /\ provisioning[c].pc = "lookup"
          /\ provisioning' =
                [provisioning EXCEPT
                    ![c] = IF IsSome(workspaces) /\ IsSome(Unwrap(workspaces).container_id)
                           THEN Provisioning("inspect", 0,
                                             Unwrap(Unwrap(workspaces).container_id))
                           ELSE Provisioning("list", 0, 0)]
    /\ UNCHANGED << containers, workspaces, workspace_dir >>
    /\ OutsideProvisioning

\* container_exists and ensure_running on the recorded container (220-224),
\* or on to create_container (227-234).
ProvisionInspect ==
    /\ \E c \in Conns, ok \in BOOLEAN :
          LET id == provisioning[c].id
          IN  /\ provisioning[c].pc = "inspect"
              /\ IF ~ok
                 THEN /\ provisioning' = [provisioning EXCEPT ![c] = ProvisionFailed]
                      /\ UNCHANGED containers
                 ELSE IF id \in DOMAIN containers
                 THEN /\ containers' = [containers EXCEPT ![id].running = TRUE,
                                                           ![id].paused = FALSE]
                      /\ provisioning' =
                            [provisioning EXCEPT ![c] = Provisioning("bound", 0, id)]
                 ELSE /\ provisioning' =
                            [provisioning EXCEPT ![c] = Provisioning("list", 0, 0)]
                      /\ UNCHANGED containers
    /\ UNCHANGED << workspaces, workspace_dir >>
    /\ OutsideProvisioning

\* One turn of ensure_unique_name's loop: list_containers for the name
\* (402-428).
ProvisionListName ==
    /\ \E c \in Conns, ok \in BOOLEAN :
          LET name == provisioning[c].name
          IN  /\ provisioning[c].pc = "list"
              /\ provisioning' =
                    [provisioning EXCEPT
                        ![c] = IF ~ok THEN ProvisionFailed
                               ELSE IF ~NameInUse(containers, name)
                               THEN Provisioning("create", name, 0)
                               ELSE IF name + 1 > UniqueNameLimit THEN ProvisionFailed
                               ELSE Provisioning("list", name + 1, 0)]
    /\ UNCHANGED << containers, workspaces, workspace_dir >>
    /\ OutsideProvisioning

\* docker.create_container under the name settled on (286-290): the engine
\* refuses a name that is in use.
ProvisionCreate ==
    /\ \E c \in Conns, ok \in BOOLEAN :
          LET name == provisioning[c].name
              id == FreshContainerId(containers)
          IN  /\ provisioning[c].pc = "create"
              /\ CanProvision
              /\ IF ~ok \/ NameInUse(containers, name)
                 THEN /\ provisioning' = [provisioning EXCEPT ![c] = ProvisionFailed]
                      /\ UNCHANGED containers
                 ELSE /\ containers' =
                            [i \in DOMAIN containers \cup {id} |->
                                IF i = id THEN [name |-> name, running |-> FALSE, paused |-> FALSE]
                                ELSE containers[i]]
                      /\ provisioning' =
                            [provisioning EXCEPT ![c] = Provisioning("start", name, id)]
    /\ UNCHANGED << workspaces, workspace_dir >>
    /\ OutsideProvisioning

\* docker.start_container on the new container (296-299).
ProvisionStart ==
    /\ \E c \in Conns, ok \in BOOLEAN :
          LET id == provisioning[c].id
          IN  /\ provisioning[c].pc = "start"
              /\ IF ok
                 THEN /\ containers' = [containers EXCEPT ![id].running = TRUE]
                      /\ provisioning' = [provisioning EXCEPT ![c].pc = "save"]
                 ELSE /\ provisioning' = [provisioning EXCEPT ![c] = ProvisionFailed]
                      /\ UNCHANGED containers
    /\ UNCHANGED << workspaces, workspace_dir >>
    /\ OutsideProvisioning

\* state.set_workspace (304-317): the entry is replaced in memory, then the
\* state is saved, which can fail.
ProvisionSave ==
    /\ \E c \in Conns, ok \in BOOLEAN :
          /\ provisioning[c].pc = "save"
          /\ workspaces' = Some(WorkspaceInfo(provisioning[c].name, provisioning[c].id))
          /\ provisioning' =
                [provisioning EXCEPT
                    ![c] = IF ok THEN Provisioning("bound", 0, provisioning[c].id)
                           ELSE ProvisionFailed]
    /\ UNCHANGED << containers, workspace_dir >>
    /\ OutsideProvisioning

NextProvision ==
    \/ ProvisionCall
    \/ ProvisionLookup
    \/ ProvisionInspect
    \/ ProvisionListName
    \/ ProvisionCreate
    \/ ProvisionStart
    \/ ProvisionSave

InitProvision ==
    /\ InitAuth /\ InitSession /\ InitEngine /\ InitForward /\ InitFile
    /\ fn_arg = << >>
    /\ fn_ret = None
    /\ provisioning = NoProvisioning
    /\ InitStdin

\* The connections, authenticated as one identity and project, provision the
\* workspace concurrently, starting with no container and no entry.
SpecProvision == InitProvision /\ [][NextProvision]_vars

\* Destroy commands in each of their modes, and payloads that begin with
\* `agentman` otherwise.
LifecycleCommands ==
    { << "agentman", " ", "destroy" >> \o FlagLine(flags, 1) :
         flags \in { { "--yes" }, { "--dry-run" }, { "--keep-workspace" } } }
       \cup { << "agentman" >>, << " ", "agentman", " ", "ls", " ", "-l" >> }

LifecycleExec ==
    /\ ControlHandled(Channels) < MaxControl
    /\ \E ch \in Channels, command \in LifecycleCommands :
          \E dfault \in FaultsOf(command) : ExecRequest(ch, command, "none", dfault)
    /\ UNCHANGED << authVars, restVars >>

NextLifecycle ==
    \/ OpenSession
    \/ Shell
    \/ LifecycleExec
    \/ ClientClose
    \/ ClientDisconnect

\* One authenticated connection that provisions and destroys the workspace,
\* on what earlier sessions left behind.
SpecLifecycle == InitControl /\ [][NextLifecycle]_vars

RemoteForward ==
    /\ \E address \in ForwardAddresses, port \in ForwardPorts,
          bind_ok \in BOOLEAN, actual \in EphemeralPorts :
          TcpipForward(address, port, bind_ok, actual)
    /\ UNCHANGED << authVars, sessVars, fileVars, pureVars, provVars, stdinVars >>
CancelRemoteForward ==
    /\ \E address \in ForwardAddresses, port \in ForwardPorts \cup EphemeralPorts :
          CancelTcpipForward(address, port)
    /\ UNCHANGED << authVars, sessVars, fileVars, pureVars, provVars, stdinVars >>
ListenerAccept ==
    /\ \E l \in 1..MaxListeners, ok \in BOOLEAN : Accept(l, ok)
    /\ UNCHANGED << authVars, sessVars, fileVars, pureVars, provVars, stdinVars >>
ForwardedOpen ==
    /\ \E t \in 1..MaxTcpConns, confirmed \in BOOLEAN : OpenForwarded(t, confirmed)
    /\ UNCHANGED << authVars, sessVars, fileVars, pureVars, provVars, stdinVars >>
ForwardedRelay ==
    /\ \E t \in 1..MaxTcpConns, read \in { "bytes", "end" } : Relay(t, read)
    /\ UNCHANGED << authVars, sessVars, fileVars, pureVars, provVars, stdinVars >>
ForwardDisconnect ==
    /\ Disconnect
    /\ DropHandler
    /\ UNCHANGED << authVars, fileVars, pureVars, provVars, stdinVars >>

NextForward ==
    \/ RemoteForward
    \/ CancelRemoteForward
    \/ ListenerAccept
    \/ ForwardedOpen
    \/ ForwardedRelay
    \/ ForwardDisconnect

\* One authenticated connection that asks for remote forwards, under every
\* setting of allow_remote and allow_gateway_ports.
InitRemoteForward ==
    /\ InitAuthenticated /\ InitSession /\ InitEngine /\ InitFile /\ InitCalls
    /\ port_forwarding \in PortForwardingConfigs
    /\ ForwardIdle

SpecForward == InitRemoteForward /\ [][NextForward]_vars

\* Forwards asked for and cancelled, with the answer of the last cancel
\* request kept: fn_arg is its address and port, fn_ret what it returned.
CancelForward ==
    /\ \E address \in ForwardAddresses, port \in ForwardPorts,
          bind_ok \in BOOLEAN, actual \in EphemeralPorts :
          TcpipForward(address, port, bind_ok, actual)
    /\ UNCHANGED << authVars, sessVars, fileVars, pureVars, provVars, stdinVars >>
CancelRequest ==
    /\ \E address \in ForwardAddresses, port \in ForwardPorts \cup EphemeralPorts :
          /\ CancelTcpipForward(address, port)
          /\ fn_arg' = << address, port >>
          /\ fn_ret' = CallResult("cancel_tcpip_forward",
                                  << address, port >> \in DOMAIN remote_forwards)
    /\ UNCHANGED << authVars, sessVars, fileVars, provVars, stdinVars >>
CancelAccept ==
    /\ \E l \in 1..MaxListeners, ok \in BOOLEAN : Accept(l, ok)
    /\ UNCHANGED << authVars, sessVars, fileVars, pureVars, provVars, stdinVars >>
CancelDisconnect ==
    /\ Disconnect
    /\ DropHandler
    /\ UNCHANGED << authVars, fileVars, pureVars, provVars, stdinVars >>

NextCancel ==
    \/ CancelForward
    \/ CancelRequest
    \/ CancelAccept
    \/ CancelDisconnect

SpecCancel == InitRemoteForward /\ [][NextCancel]_vars

Mutate ==
    /\ \E p \in Conns, op \in StoreOps : StoreMutate(p, op)
    /\ UNCHANGED << github_user, project, pending_github_user,
                    offered_key_fingerprints, pc, call, auth_result >>
    /\ UNCHANGED << alive, channels, container_id, exec_sessions, execs, sent,
                    containers, workspace_dir, engine_calls >>
    /\ UNCHANGED << fwdVars, pureVars, provVars, stdinVars >>
Serialization ==
    /\ \E p \in Conns : SaveSerialize(p)
    /\ UNCHANGED << github_user, project, pending_github_user,
                    offered_key_fingerprints, pc, call, auth_result >>
    /\ UNCHANGED << alive, channels, container_id, exec_sessions, execs, sent,
                    containers, workspace_dir, engine_calls >>
    /\ UNCHANGED << fwdVars, pureVars, provVars, stdinVars >>
CreateFile ==
    /\ \E p \in Conns : WriteCreate(p)
    /\ UNCHANGED << github_user, project, pending_github_user,
                    offered_key_fingerprints, pc, call, auth_result >>
    /\ UNCHANGED << alive, channels, container_id, exec_sessions, execs, sent,
                    containers, workspace_dir, engine_calls >>
    /\ UNCHANGED << fwdVars, pureVars, provVars, stdinVars >>
WriteFile ==
    /\ \E p \in Conns : WriteAll(p)
    /\ UNCHANGED << github_user, project, pending_github_user,
                    offered_key_fingerprints, pc, call, auth_result >>
    /\ UNCHANGED << alive, channels, container_id, exec_sessions, execs, sent,
                    containers, workspace_dir, engine_calls >>
    /\ UNCHANGED << fwdVars, pureVars, provVars, stdinVars >>
StopAndStart ==
    /\ Restart
    /\ UNCHANGED << github_user, project, pending_github_user,
                    offered_key_fingerprints, pc, call, auth_result >>
    /\ UNCHANGED << alive, channels, container_id, exec_sessions, execs, sent,
                    containers, workspace_dir, engine_calls >>
    /\ UNCHANGED << fwdVars, pureVars, provVars, stdinVars >>

NextStore ==
    \/ Mutate
    \/ Serialization
    \/ CreateFile
    \/ WriteFile
    \/ StopAndStart

\* The mutating calls of NConns concurrent connections on one StateManager,
\* from an empty document and no state file.
SpecStore == Init /\ [][NextStore]_vars

(***************************************************************************)
(* Authentication and the fingerprint cache.                               *)
(***************************************************************************)
Bound(f) == f \in DOMAIN key_to_github
BoundTo(f, user) == Bound(f) /\ key_to_github[f].github_username = user

\* A step of connection c in which a publickey callback returns Accept.
PublickeyAccepted(c) ==
    /\ \/ \E u \in SshUsers, k \in Keys : AuthPublickeyOffered(c, u, k)
       \/ \E k \in Keys : AuthPublickey(c, k)
       \/ CacheCheck(c)
       \/ CacheWrite(c)
    /\ pc'[c] = "idle"
    /\ auth_result' = << c, "Accept" >>

\* ... and does so at the end of cache_all_offered_keys, that is after a
\* successful verification at the identity provider.
VerifiedAccepted(c) ==
    /\ CacheCheck(c) \/ CacheWrite(c)
    /\ pc'[c] = "idle"
    /\ auth_result' = << c, "Accept" >>

C2_BoundKeyListedByProvider ==
    \A f \in DOMAIN key_to_github :
       Listed(key_to_github[f].github_username, f[2])

\* C2 as amended: a binding fingerprint -> identity is written only by a
\* connection that had offered that fingerprint and whose running callback
\* verified one of its offered keys, listed by the provider under that
\* identity; the bound key itself need not be listed.
C2_BindingRestsOnVerifiedOfferedKey ==
    [][\A f \in DOMAIN key_to_github' :
          (f \notin DOMAIN key_to_github \/ key_to_github'[f] # key_to_github[f]) =>
             \E c \in Conns :
                /\ pc[c] = "cache_write"
                /\ Contains(offered_key_fingerprints[c], f)
                /\ Contains(offered_key_fingerprints[c],
                            compute_fingerprint_from_pubkey(call[c].key))
                /\ key_to_github'[f].github_username = call[c].id
                /\ key_to_github'[f].key_type = KeyAlgorithm(call[c].key)
                /\ Listed(call[c].id, call[c].key)]_vars

\* Key 2, which the provider lists under "b" only, is bound to "a".
C2_Witness ==
    /\ BoundTo(compute_fingerprint_from_pubkey(2), UserA)
    /\ BoundTo(compute_fingerprint_from_pubkey(1), UserA)
    /\ ~Listed(UserA, 2)

\* The offer of key k under user name u finds k's fingerprint bound.  (The
\* first conjuncts hold of every such step; they only spare the evaluation
\* of the action on the steps of other callbacks.)
StepOfBoundKey(c, k) ==
    /\ pc[c] = "idle"
    /\ compute_fingerprint_from_pubkey(k) \in DOMAIN key_to_github
    /\ pc'[c] = "verify" \/ auth_result'[1] = c
    /\ key_to_github' = key_to_github
    /\ \A d \in Conns \ {c} :
          /\ pc'[d] = pc[d]
          /\ call'[d] = call[d]
          /\ offered_key_fingerprints'[d] = offered_key_fingerprints[d]
          /\ github_user'[d] = github_user[d]
          /\ pending_github_user'[d] = pending_github_user[d]
    /\ pending_github_user'[c] = pending_github_user[c]

OfferOfBoundKey(c, u, k) ==
    /\ compute_fingerprint_from_pubkey(k) \in DOMAIN key_to_github
    /\ AuthPublickeyOffered(c, u, k)

\* The offer returns Accept at once, as the bound identity, and the callback
\* never reaches the point where it contacts the provider.
AcceptedFromCache(c, k) ==
    /\ pc'[c] = "idle"
    /\ auth_result' = << c, "Accept" >>
    /\ github_user'[c] =
          Some(key_to_github[compute_fingerprint_from_pubkey(k)].github_username)
    /\ key_to_github' = key_to_github

\* The user names whose project part passes validate_project_name.
UsersOfValidProject ==
    { u \in SshUsers : validate_project_name(parse_ssh_username(u)[1]) }

\* C3 as stated: whenever the offered key's fingerprint is bound, the offer
\* is accepted as the bound identity without contacting the provider.
C3_BoundOfferAccepted ==
    [][\A c \in Conns, k \in Keys :
          StepOfBoundKey(c, k) =>
             \/ AcceptedFromCache(c, k)
             \/ \A u \in SshUsers : ~OfferOfBoundKey(c, u, k)]_vars

\* C3 as amended: whenever the offered key's fingerprint is bound and the
\* project part of the user name passes validate_project_name, the offer is
\* accepted as the bound identity without contacting the provider, whatever
\* the pending identity and the user-name hint are.
C3_BoundOfferWithValidProjectAccepted ==
    [][\A c \in Conns, k \in Keys :
          StepOfBoundKey(c, k) =>
             \/ AcceptedFromCache(c, k)
             \/ \A u \in UsersOfValidProject : ~OfferOfBoundKey(c, u, k)]_vars

\* A connection on which only key 2 was ever presented is accepted as "a",
\* under which the provider does not list key 2, while the identity "b"
\* typed at the keyboard-interactive prompt is still pending.
C3_Witness ==
    \E c \in Conns :
       /\ pc[c] = "idle"
       /\ auth_result = << c, "Accept" >>
       /\ offered_key_fingerprints[c] = << compute_fingerprint_from_pubkey(2) >>
       /\ github_user[c] = Some(UserA)
       /\ pending_github_user[c] = Some(UserB)

\* C4: the bindings change only in a callback whose verification at the
\* provider succeeded: a callback is in cache_all_offered_keys only for an
\* identity under which the provider lists the presented key, and every
\* other step of every callback leaves the bindings as they were.
C4_OnlyVerifiedCallbackWrites ==
    [][/\ \A c \in Conns :
             pc'[c] \in {"cache_check", "cache_write"} => Listed(call'[c].id, call'[c].key)
       /\ key_to_github' # key_to_github =>
             \E c \in Conns : pc[c] = "cache_write" /\ CacheWrite(c)]_vars

\* A verification failed on a connection (its offer was turned down with
\* both methods left open) although bindings exist, and they stand.
C4_Witness ==
    \E c \in Conns :
       /\ pc[c] = "idle"
       /\ auth_result = << c, "RejectPublicKeyKeyboardInteractive" >>
       /\ github_user[c] = None
       /\ offered_key_fingerprints[c] # << >>
       /\ \A i \in 1..Len(offered_key_fingerprints[c]) :
             ~Bound(offered_key_fingerprints[c][i])
       /\ key_to_github # << >>

\* C5: once a fingerprint is bound to an identity it stays bound to that
\* identity.
C5_BindingsAdditive ==
    [][\A f \in DOMAIN key_to_github :
          /\ f \in DOMAIN key_to_github'
          /\ key_to_github'[f].github_username = key_to_github[f].github_username]_vars

(***************************************************************************)
(* Exec bridges and gateway control commands: what a channel is handed.    *)
(***************************************************************************)
\* The messages the I/O task of exec e handed to its channel, in order.
ExecLog(e) == SelectSeq(sent[execs[e].channel], LAMBDA m : m.from = e)

\* log is a prefix of expected, message by message.
IsPrefixOf(log, expected) ==
    /\ Len(log) <= Len(expected)
    /\ \A i \in 1..Len(log) :
          /\ log[i].kind = expected[i].kind
          /\ log[i].arg = expected[i].arg

SameMessages(log, expected) ==
    Len(log) = Len(expected) /\ IsPrefixOf(log, expected)

\* The output of a Session exec as the client is to see it: every frame in
\* the order read, stderr as extended data.
SessionOutput(e, output) ==
    [i \in 1..Len(output) |->
        Msg(e, IF output[i] = "StdErr" THEN "extended_data" ELSE "data", << output[i], i >>)]

\* The output of a TcpForward exec as the client is to see it: the frames
\* that are not stderr, in the order read.
TcpForwardOutput(e, output) ==
    LET places == SelectSeq([i \in 1..Len(output) |-> i], LAMBDA i : output[i] # "StdErr")
    IN  [j \in 1..Len(places) |-> Msg(e, "data", << output[places[j]], places[j] >>)]

SessionEnding(e, status) ==
    << Msg(e, "exit_status", << status >>), Msg(e, "eof", << >>), Msg(e, "close", << >>) >>

TcpForwardEnding(e) == << Msg(e, "eof", << >>), Msg(e, "close", << >>) >>

\* C6: what the I/O task of a Session exec has handed to its channel is at
\* every moment a prefix of: the frames read, in order, then exit-status with
\* the status the polls left, then eof, then close; and it is all of that
\* once the task is done on a connection that is still there.  So
\* exit-status never comes before an output frame nor after eof or close.
C6_SessionExecOrdering ==
    \A e \in 1..Len(execs) : execs[e].kind = "Session" =>
        LET x == execs[e]
            expected == SessionOutput(e, x.output) \o SessionEnding(e, x.poll.exit_status)
        IN  /\ IsPrefixOf(ExecLog(e), expected)
            /\ (alive /\ x.pc = "done") => SameMessages(ExecLog(e), expected)

\* A Session exec done on a live connection after two frames and exit code 3.
C6_Witness ==
    \E e \in 1..Len(execs) :
        /\ execs[e].kind = "Session"
        /\ execs[e].pc = "done"
        /\ alive
        /\ execs[e].output = << "StdOut", "Console" >>
        /\ execs[e].poll.exit_status = 3
        /\ Len(ExecLog(e)) = 5

C8_ExitStatusValue ==
    \A e \in 1..Len(execs) : execs[e].kind = "Session" =>
        \A i \in 1..Len(ExecLog(e)) : ExecLog(e)[i].kind = "exit_status" =>
            LET status == ExecLog(e)[i].arg[1]
                polls == execs[e].poll.polls
                info == execs[e].poll.inspect
            IN  /\ polls \in 1..PollLimit
                /\ info.tag = "ok" /\ info.running = Some(FALSE) /\ IsSome(info.exit_code)
                      => status = IF Unwrap(info.exit_code) >= 0
                                  THEN Unwrap(info.exit_code) ELSE 255
                /\ info.tag = "ok" /\ info.running = Some(TRUE)
                      => polls = PollLimit /\ status = 255

\* All 80 polls said running, and the channel got exit-status 255.
C8_Witness ==
    \E e \in 1..Len(execs) :
        /\ execs[e].kind = "Session"
        /\ execs[e].poll.polls = PollLimit
        /\ execs[e].poll.inspect = InspectOk(Some(TRUE), None)
        /\ \E i \in 1..Len(ExecLog(e)) :
              ExecLog(e)[i] = Msg(e, "exit_status", << 255 >>)

\* The 80th poll said running=false with code 3, and the channel got
\* exit-status 3.
C8_WitnessLastPoll ==
    \E e \in 1..Len(execs) :
        /\ execs[e].kind = "Session"
        /\ execs[e].poll.polls = PollLimit
        /\ execs[e].poll.inspect = InspectOk(Some(FALSE), Some(3))
        /\ \E i \in 1..Len(ExecLog(e)) : ExecLog(e)[i].kind = "exit_status"

\* What a step appended to channel ch.
Appended(ch) == SubSeq(sent'[ch], Len(sent[ch]) + 1, Len(sent'[ch]))

KindsOf(msgs) == [i \in 1..Len(msgs) |-> msgs[i].kind]

\* The exec-request callback answered on ch beyond confirming the request.
GatewayAnswered(ch) ==
    /\ Len(sent'[ch]) > Len(sent[ch])
    /\ \E i \in 1..Len(Appended(ch)) :
          Appended(ch)[i].from = Gateway /\ Appended(ch)[i].kind # "success"

\* C9: an exec-request callback that handles a control command hands the
\* channel, after the confirmation of the request, the command's output as
\* data, then exit-status, then eof, then close, and nothing after close.
C9_ControlReplyOrder ==
    [][\A ch \in Channels : GatewayAnswered(ch) =>
          /\ SubSeq(sent'[ch], 1, Len(sent[ch])) = sent[ch]
          /\ \A i \in 1..Len(Appended(ch)) : Appended(ch)[i].from = Gateway
          /\ KindsOf(Appended(ch)) = << "success", "data", "exit_status", "eof", "close" >>
          /\ Appended(ch)[2].arg # << >>
          /\ Appended(ch)[3].arg[1] \in { 0, 1, 2 }]_vars

\* A channel that got the summary of a destroy that removed a container,
\* then exit-status 0, eof and close.
C9_Witness ==
    \E ch \in Channels :
        /\ Len(sent[ch]) = 5
        /\ KindsOf(sent[ch]) = << "success", "data", "exit_status", "eof", "close" >>
        /\ sent[ch][2].arg[1] = "summary"
        /\ sent[ch][2].arg[2].removed_containers # << >>
        /\ sent[ch][3].arg = << 0 >>

\* The command lines `agentman destroy` with no flag but --force.
UnconfirmedDestroys ==
    { command \in ControlCommands :
         LET words == split_whitespace(command)
         IN  /\ Len(words) >= 2
             /\ words[1] = "agentman"
             /\ words[2] = "destroy"
             /\ \A i \in 3..Len(words) : words[i] = "--force" }

\* C10: an exec request `agentman destroy` with none of --yes,
\* --keep-workspace, --dry-run, with or without --force, is answered with
\* exit-status 2 and leaves the containers, the workspace directory and the
\* workspace's state entry as they were.
C10_UnconfirmedDestroyRefused ==
    [][\A ch \in Channels, command \in UnconfirmedDestroys :
          (Len(sent'[ch]) > Len(sent[ch]) /\ ExecRequest(ch, command, "none", NoFault)) =>
              /\ KindsOf(Appended(ch)) = << "success", "data", "exit_status", "eof", "close" >>
              /\ Appended(ch)[3].arg = << 2 >>
              /\ UNCHANGED << containers, workspaces, workspace_dir, container_id >>]_vars

\* A refusal was sent while a running container, the directory and the
\* state entry of the workspace are there, and they still are.
C10_Witness ==
    \E ch \in Channels :
        /\ \E i \in 1..Len(sent[ch]) : sent[ch][i] = Msg(Gateway, "exit_status", << 2 >>)
        /\ \A c \in Channels : \A i \in 1..Len(sent[c]) :
              sent[c][i].kind = "exit_status" => sent[c][i].arg = << 2 >>
        /\ \E id \in DOMAIN containers : containers[id].running
        /\ workspaces = Some(WorkspaceInfo(0, 1))
        /\ workspace_dir

\* The command lines `agentman destroy` with --dry-run and any of the other
\* flags.
DryRunDestroys ==
    { command \in ControlCommands :
         LET words == split_whitespace(command)
         IN  /\ Len(words) >= 3
             /\ words[1] = "agentman"
             /\ words[2] = "destroy"
             /\ \A i \in 3..Len(words) :
                   words[i] \in { "--yes", "-y", "--keep-workspace", "--dry-run", "--force" }
             /\ \E i \in 3..Len(words) : words[i] = "--dry-run" }

\* C11: an exec request `agentman destroy --dry-run`, with any of the other
\* flags, makes no stop or remove call to the engine, leaves the containers,
\* the workspace directory and the workspace's state entry as they were, is
\* answered with exit-status 0, and every container entry of its summary
\* carries the (dry-run) marker.
C11_DryRunNoSideEffects ==
    [][\A ch \in Channels, command \in DryRunDestroys :
          (/\ Len(sent'[ch]) > Len(sent[ch])
           /\ \E dfault \in DryRunFaults : ExecRequest(ch, command, "none", dfault)) =>
              /\ engine_calls' = << >>
              /\ UNCHANGED << containers, workspaces, workspace_dir >>
              /\ Appended(ch)[3].arg = << 0 >>
              /\ Appended(ch)[2].arg[1] = "summary"
              /\ \A i \in 1..Len(Appended(ch)[2].arg[2].removed_containers) :
                    LET entry == Appended(ch)[2].arg[2].removed_containers[i]
                    IN  Len(entry) = 2 /\ entry[2] = "(dry-run)"]_vars

\* A dry run listed three targets, all marked, and the two containers (one
\* running), the directory and the state entry are still there.
C11_Witness ==
    \E ch \in Channels :
        /\ Len(sent[ch]) = 5
        /\ sent[ch][2].kind = "data"
        /\ sent[ch][2].arg[1] = "summary"
        /\ Len(sent[ch][2].arg[2].removed_containers) = 3
        /\ \A i \in 1..3 : Len(sent[ch][2].arg[2].removed_containers[i]) = 2
        /\ sent[ch][3].arg = << 0 >>
        /\ DOMAIN containers = ContainerIds
        /\ \E id \in ContainerIds : containers[id].running
        /\ workspaces = Some(WorkspaceInfo(0, 1))
        /\ workspace_dir
        /\ engine_calls = << >>

\* The callback is a shell or exec request that calls
\* get_or_create_container.
ProvisioningRequest ==
    \E ch \in Channels, fault \in ProvisionFaults :
        \/ ShellRequest(ch, fault)
        \/ \E command \in ExecCommands : ExecRequest(ch, command, fault, NoFault)

\* C12: once get_or_create_container has returned a container id to the
\* connection, the next call (nothing having destroyed or changed the
\* container in between) makes no create and no start call to the engine and
\* returns the same id.
C12_SecondProvisionIdempotent ==
    [][(IsSome(container_id) /\ alive /\ ProvisioningRequest) =>
          /\ engine_calls' = << >>
          /\ container_id' = container_id
          /\ containers' = containers]_vars

\* A shell runs on a connection whose container was provisioned by an
\* earlier callback (a direct-tcpip request that was then refused): one
\* container, and the latest callback made no engine call.
C12_Witness ==
    /\ IsSome(container_id)
    /\ Len(execs) = 1
    /\ execs[1].kind = "Session"
    /\ \E ch \in Channels : channels[ch].type = "refused"
    /\ DOMAIN containers = { Unwrap(container_id) }
    /\ containers[Unwrap(container_id)].running
    /\ engine_calls = << >>

\* C14: a direct-tcpip request that is refused provisions nothing: it makes
\* no engine call, and leaves the containers, the workspace's state entry and
\* directory, the connection's container_id and its execs as they were.
C14_RefusedForwardProvisionsNothing ==
    [][\A ch \in Channels :
          (channels[ch].type = "none" /\ channels'[ch].type = "refused") =>
              /\ engine_calls' = << >>
              /\ UNCHANGED << containers, workspaces, workspace_dir,
                              container_id, exec_sessions, execs >>]_vars

\* The faults of the container engine: a call to it fails.
EngineFaults == { "inspect", "start", "list", "create", "start_new",
                  "create_exec", "start_exec" }

\* The exec commands that run in the container.
BridgedCommands ==
    { c \in ExecCommands : ~IsSome(parse_gateway_control_command(trim(c))) }

\* The callback is a shell or exec request on ch during which
\* get_or_create_container fails.
ProvisioningFails(ch) ==
    /\ Authenticated
    /\ \E fault \in EngineFaults :
          /\ ~get_or_create_container(fault).ok
          /\ \/ ShellRequest(ch, fault)
             \/ \E command \in BridgedCommands : ExecRequest(ch, command, fault, NoFault)

\* C17: when provisioning fails during a shell or exec request, the channel
\* receives an error line as extended data and then exit status 255, and is
\* closed.
C17_ProvisionFailureReported ==
    [][\A ch \in Channels :
          ProvisioningFails(ch) =>
              \E i, j, k \in 1..Len(Appended(ch)) :
                  /\ i < j /\ j < k
                  /\ Appended(ch)[i].kind = "extended_data"
                  /\ Appended(ch)[j].kind = "exit_status"
                  /\ Appended(ch)[j].arg = << 255 >>
                  /\ Appended(ch)[k].kind = "close"]_vars

\* The callback is a shell, exec or direct-tcpip request on ch during which
\* a call to the engine fails: in provisioning, create_exec or start_exec.
ServingFails(ch) ==
    /\ Authenticated
    /\ \E fault \in EngineFaults :
          /\ ~get_or_create_container(fault).ok \/ fault \in { "create_exec", "start_exec" }
          /\ \/ ShellRequest(ch, fault)
             \/ \E command \in BridgedCommands : ExecRequest(ch, command, fault, NoFault)
             \/ \E host \in Hosts : ChannelOpenDirectTcpip(ch, host, fault)
          /\ ~alive' \/ channels'[ch].type # "refused"

\* C18: an engine failure while serving one channel stays on that channel:
\* the connection goes on, and the other channels, their exec sessions and
\* what was sent to them are as before.
C18_FailureConfinedToChannel ==
    [][\A ch \in Channels :
          (ServingFails(ch) /\ exec_sessions'[ch] = None) =>
              /\ alive'
              /\ \A other \in Channels \ {ch} :
                    /\ channels'[other] = channels[other]
                    /\ exec_sessions'[other] = exec_sessions[other]
                    /\ sent'[other] = sent[other]]_vars

\* The addresses that ask for every interface, and the loopback names.
WildcardAddresses == { "", "*", "0.0.0.0" }
LoopbackLiterals == { "localhost", "127.0.0.1", "::1", "[::1]" }

\* C13: with allow_gateway_ports off every listener of a tcpip-forward is
\* bound to 127.0.0.1 whatever address was asked for; with it on, a wildcard
\* asks binds 0.0.0.0, a loopback literal 127.0.0.1 and any other literal
\* itself.
C13_RemoteForwardBindPolicy ==
    \A l \in 1..Len(listeners) :
        LET asked == listeners[l].address
            bound == listeners[l].bind_addr
        IN  IF ~port_forwarding.allow_gateway_ports THEN bound = "127.0.0.1"
            ELSE IF asked \in WildcardAddresses THEN bound = "0.0.0.0"
            ELSE IF asked \in LoopbackLiterals THEN bound = "127.0.0.1"
            ELSE bound = asked

\* With gateway ports off, listeners asked for on every interface and on
\* an address that is no loopback name, both on 127.0.0.1.
C13_Witness ==
    /\ Len(listeners) = 2
    /\ ~port_forwarding.allow_gateway_ports
    /\ listeners[1].address = "0.0.0.0"
    /\ listeners[1].bind_addr = "127.0.0.1"
    /\ listeners[2].address = "192.168.1.5"
    /\ listeners[2].bind_addr = "127.0.0.1"

\* With gateway ports on, a listener on every interface for `*`, here
\* aborted, and one on the address asked for.
C13_WitnessGatewayPorts ==
    /\ Len(listeners) = 2
    /\ port_forwarding.allow_gateway_ports
    /\ listeners[1].address = "*"
    /\ listeners[1].bind_addr = "0.0.0.0"
    /\ listeners[2].address = "192.168.1.5"
    /\ listeners[2].bind_addr = "192.168.1.5"

\* C15: once the connection is closed, no listener that a tcpip-forward of
\* the connection opened is still accepting.
C15_ListenersAbortedOnDisconnect ==
    ~alive => \A l \in 1..Len(listeners) : listeners[l].state # "listening"

\* C16: the forwarded-tcpip opens of one listener's connections reach the
\* session in the order in which the listener accepted the connections.
C16_ForwardedInAcceptOrder ==
    \A i, j \in 1..Len(forwarded) :
        (i < j /\ tcp_conns[forwarded[i]].listener = tcp_conns[forwarded[j]].listener)
            => forwarded[i] < forwarded[j]

\* C19: at no time are two writes of the state file in progress.
C19_OneFileWriteAtATime ==
    Cardinality({ p \in Conns : store_pc[p] = "write" }) <= 1

\* C20: whenever the state file exists it holds one whole serialized
\* document, at every step of a mutating call.
C20_FileAlwaysWholeSnapshot ==
    state_file.exists => IsSome(Parse(state_file.content))

\* The callback is a destroy command that is no dry run and is not refused.
DestroyRuns ==
    \E ch \in Channels, command \in LifecycleCommands :
        LET ctrl == parse_gateway_control_command(trim(command))
        IN  /\ IsSome(ctrl)
            /\ Unwrap(ctrl).cmd = "Destroy"
            /\ ~Unwrap(ctrl).dry_run
            /\ ~NeedsConfirmation(Unwrap(ctrl))
            /\ \E dfault \in DestroyFaults : ExecRequest(ch, command, "none", dfault)

\* C21: the workspace's record, once there, stays until a destroy that is
\* no dry run: every other step keeps it, and changes at most its container
\* name and container id.
C21_RecordKeptUntilDestroy ==
    [][(IsSome(workspaces) /\ workspaces' # workspaces) =>
          \/ DestroyRuns
          \/ /\ IsSome(workspaces')
             /\ Unwrap(workspaces').github_user = Unwrap(workspaces).github_user
             /\ Unwrap(workspaces').project = Unwrap(workspaces).project]_vars

\* A shell was served by a container made anew for a record whose container
\* was gone: the record is there, with the new container.
C21_Witness ==
    /\ IsSome(workspaces)
    /\ IsSome(container_id)
    /\ Unwrap(workspaces).container_id = Some(2)
    /\ Unwrap(workspaces).github_user = UserA
    /\ Len(execs) = 1
    /\ engine_calls = << EngineCall("create", 2), EngineCall("start", 2) >>

\* The call of f has returned.
Returned(f) == IsSome(fn_ret) /\ Unwrap(fn_ret)[1] = f

\* The positive vocabulary of project names: 1 to 64 characters, each an
\* ASCII letter, digit, '_' or '-', the first no '.' and no '-'.
InProjectVocabulary(name) ==
    /\ Len(name) \in 1..ProjectNameMax
    /\ \A i \in 1..Len(name) : name[i] \in AsciiAlnumChars \cup { "_", "-" }
    /\ name[1] \notin { ".", "-" }

\* The positive vocabulary of identities: 1 to 39 characters, each an ASCII
\* letter, digit or '-', no '-' at either end and no '--'.
InGithubVocabulary(name) ==
    /\ Len(name) \in 1..GithubUsernameMax
    /\ \A i \in 1..Len(name) : name[i] \in AsciiAlnumChars \cup { "-" }
    /\ name[1] # "-" /\ name[Len(name)] # "-"
    /\ \A i \in 1..(Len(name) - 1) : ~(name[i] = "-" /\ name[i + 1] = "-")

\* C22: each validator accepts a string exactly when it is in the positive
\* vocabulary; so neither accepts a string with '/', whitespace or a
\* character outside ASCII.
C22_ValidatorsAcceptExactlyVocabulary ==
    /\ Returned("validate_project_name") =>
          (Unwrap(fn_ret)[2] <=> InProjectVocabulary(fn_arg))
    /\ Returned("validate_github_username") =>
          (Unwrap(fn_ret)[2] <=> InGithubVocabulary(fn_arg))

HasPlus(s) == \E i \in 1..Len(s) : s[i] = "+"

\* C23: parse_ssh_username returns a name without '+' whole and with no
\* identity; and a validated project, '+' and a validated identity as that
\* project and that identity.
C23_ParseRoundTrip ==
    Returned("parse_ssh_username") =>
        /\ ~HasPlus(fn_arg) => Unwrap(fn_ret)[2] = << fn_arg, None >>
        /\ \A i \in 1..Len(fn_arg) :
              LET p == SubSeq(fn_arg, 1, i - 1)
                  u == SubSeq(fn_arg, i + 1, Len(fn_arg))
              IN  (fn_arg[i] = "+" /\ validate_project_name(p)
                                   /\ validate_github_username(u))
                     => Unwrap(fn_ret)[2] = << p, Some(u) >>

\* The user name "a+a-a" was parsed into project "a" and identity "a-a".
C23_Witness ==
    /\ fn_arg = << "a", "+", "a", "-", "a" >>
    /\ Returned("parse_ssh_username")
    /\ Unwrap(fn_ret)[2] = << << "a" >>, Some(<< "a", "-", "a" >>) >>

\* The limit is a decimal integer without sign, then at most one of the
\* suffixes g, m, k in either case.
SuffixLetters == { "g", "G", "m", "M", "k", "K" }

LimitNumber(s) ==
    IF s # << >> /\ s[Len(s)] \in SuffixLetters THEN SubSeq(s, 1, Len(s) - 1) ELSE s

IsLimit(s) ==
    /\ LimitNumber(s) # << >>
    /\ \A i \in 1..Len(LimitNumber(s)) : IsDigit(LimitNumber(s)[i])

LimitShift(s) ==
    IF s[Len(s)] \in { "g", "G" } THEN 30
    ELSE IF s[Len(s)] \in { "m", "M" } THEN 20
    ELSE IF s[Len(s)] \in { "k", "K" } THEN 10
    ELSE 0

\* C24: parse_memory_limit returns n * 2^30, n * 2^20, n * 2^10 or n for
\* the decimal integer n with the suffix g, m, k or none, in either case,
\* and an error for every other string.
C24_MemoryLimitValue ==
    Returned("parse_memory_limit") =>
        Unwrap(fn_ret)[2] =
            (IF IsLimit(fn_arg)
             THEN Bytes(FALSE, Canonical(LimitNumber(fn_arg)), LimitShift(fn_arg))
             ELSE << "Err" >>)

\* The first whitespace-separated token of the payload is `agentman`.
AgentmanPayload(command) ==
    /\ split_whitespace(command) # << >>
    /\ split_whitespace(command)[1] = "agentman"

\* The callback created and started no container, and left the session's
\* container_id and exec records as they were.
NothingProvisioned ==
    /\ \A i \in 1..Len(engine_calls') : engine_calls'[i][1] \notin { "create", "start" }
    /\ DOMAIN containers' \subseteq DOMAIN containers
    /\ UNCHANGED << container_id, exec_sessions, execs >>

\* C25: an exec request whose payload begins with `agentman` is handled by
\* the gateway: nothing is provisioned for it, no exec is created, and
\* container_id and the exec records stay; and a shell request runs no
\* control command: it gets no reply but the confirmation, and nothing is
\* stopped or removed.
C25_AgentmanHandledInline ==
    [][\A ch \in Channels :
          /\ Len(sent'[ch]) > Len(sent[ch]) =>
                \A command \in LifecycleCommands :
                    (/\ AgentmanPayload(command)
                     /\ \E dfault \in FaultsOf(command) :
                           ExecRequest(ch, command, "none", dfault))
                        => NothingProvisioned
          /\ (/\ alive /\ IsOpen(ch, "session")
              /\ ~alive' \/ Len(execs') > Len(execs)
              /\ \E fault \in ProvisionFaults : ShellRequest(ch, fault)) =>
                /\ \A i \in 1..Len(Appended(ch)) : Appended(ch)[i].kind = "success"
                /\ \A i \in 1..Len(engine_calls') :
                      engine_calls'[i][1] \notin { "stop", "remove" }]_vars

\* `agentman ls -l` was answered by the gateway (with the help text) on a
\* connection that has no container and no exec, while the engine holds
\* none either.
C25_Witness ==
    /\ \E ch \in Channels :
          /\ Len(sent[ch]) = 5
          /\ sent[ch][2] = Msg(Gateway, "data", << "help" >>)
    /\ container_id = None
    /\ execs = << >>
    /\ containers = << >>
    /\ engine_calls = << >>

(***************************************************************************)
(* C26 - C29: the authentication callbacks.                                *)
(***************************************************************************)
\* The signed publickey request of key k on connection c returns Accept at
\* once (auth_publickey's `github_user.is_some()` branch).
SignedAcceptedAtOnce(c, k) ==
    /\ pc[c] = "idle"
    /\ pc'[c] = "idle"
    /\ auth_result' = << c, "Accept" >>
    /\ project' = project
    /\ github_user' = github_user
    /\ AuthPublickey(c, k)

\* The signed publickey request of connection c returns Accept after its
\* own verification of the signed key.
SignedAcceptedVerified(c) ==
    /\ call[c].cb = "signed"
    /\ VerifiedAccepted(c)

\* C26: a signed publickey request is accepted with session identity I only
\* if the signed key itself is bound to I in key_to_github or is a key the
\* provider lists under I; the acceptance never rests on another key that
\* was only offered earlier on the connection.
C26_SignedKeyCarriesIdentity ==
    [][\A c \in Conns :
          /\ \A k \in Keys :
                SignedAcceptedAtOnce(c, k) =>
                   \/ BoundTo(compute_fingerprint_from_pubkey(k), Unwrap(github_user'[c]))
                   \/ Listed(Unwrap(github_user'[c]), k)
          /\ SignedAcceptedVerified(c) =>
                Listed(Unwrap(github_user'[c]), call[c].key)]_vars

\* The offer of key k under user name u on connection c, when the key has
\* no binding and the project part of u is valid.
UnboundOffer(c, u, k) ==
    /\ pc[c] = "idle"
    /\ ~Bound(compute_fingerprint_from_pubkey(k))
    /\ project'[c] = Some(parse_ssh_username(u)[1])
    /\ AuthPublickeyOffered(c, u, k)

\* The identity source in force for an offer under user name u: the pending
\* identity if there is one, else the hint if u has one, else the bootstrap
\* list.  << path, first identity, identities after it >>
OfferedSource(c, u) ==
    LET hint == parse_ssh_username(u)[2]
    IN  IF IsSome(pending_github_user[c])
        THEN << "pending", Unwrap(pending_github_user[c]), << >> >>
        ELSE IF IsSome(hint)
        THEN << "hint", Unwrap(hint), << >> >>
        ELSE << "bootstrap", Head(bootstrap_github_users), Tail(bootstrap_github_users) >>

\* The offered callback of connection c is at its verify_key await.
OfferVerifying(c) == pc[c] = "verify" /\ call[c].cb = "offered"

\* C27 as stated: an offer of an unbound key is rejected only when no source
\* verifies the key, and then with publickey and keyboard-interactive
\* enabled: when the verification against the pending identity or the hint
\* fails, the bootstrap identities, not tried yet, do not list the key.
C27_RejectedOnlyWhenNoSourceVerifies ==
    [][\A c \in Conns, t \in BOOLEAN :
          (OfferVerifying(c) /\ pc'[c] = "idle" /\ VerifyKey(c, t)) =>
             /\ auth_result' = << c, "RejectPublicKeyKeyboardInteractive" >>
             /\ call[c].path \in {"pending", "hint"} =>
                   \A i \in 1..Len(bootstrap_github_users) :
                      ~Listed(bootstrap_github_users[i], call[c].key)]_vars

\* C27 as amended: an offer of an unbound key is verified against the first
\* source there is (pending identity, else hint, else the bootstrap list),
\* and against no other: a verified pending or hinted identity, or the first
\* verified bootstrap identity, becomes the session identity; a failed
\* pending identity rejects with publickey and keyboard-interactive enabled,
\* an invalid or failed hint rejects with no method set, an exhausted
\* bootstrap list rejects with publickey and keyboard-interactive enabled.
C27_FirstAvailableSourceDecides ==
    [][\A c \in Conns :
          /\ \A u \in UsersOfValidProject, k \in Keys :
                UnboundOffer(c, u, k) =>
                   LET src == OfferedSource(c, u)
                   IN  IF src[1] = "hint" /\ ~validate_github_username(src[2])
                       THEN pc'[c] = "idle" /\ auth_result' = << c, "Reject" >>
                       ELSE /\ pc'[c] = "verify"
                            /\ call'[c].key = k
                            /\ << call'[c].path, call'[c].id, call'[c].rest >> = src
          /\ \A t \in BOOLEAN :
                (OfferVerifying(c) /\ VerifyKey(c, t)) =>
                   IF ~t /\ Listed(call[c].id, call[c].key)
                   THEN pc'[c] = "cache_check" /\ call'[c].id = call[c].id
                   ELSE IF call[c].path = "bootstrap" /\ call[c].rest # << >>
                   THEN /\ pc'[c] = "verify"
                        /\ call'[c].id = Head(call[c].rest)
                        /\ call'[c].rest = Tail(call[c].rest)
                   ELSE /\ pc'[c] = "idle"
                        /\ github_user'[c] = github_user[c]
                        /\ auth_result' =
                              << c, IF call[c].path = "hint" THEN "Reject"
                                    ELSE "RejectPublicKeyKeyboardInteractive" >>
          /\ (call[c].cb = "offered" /\ VerifiedAccepted(c)) =>
                github_user'[c] = Some(call[c].id)]_vars

\* Key 1, which the provider lists under the first bootstrap identity, was
\* offered while "b" was pending and turned down.
C27_Witness ==
    \E c \in Conns :
       /\ pc[c] = "idle"
       /\ auth_result = << c, "RejectPublicKeyKeyboardInteractive" >>
       /\ pending_github_user[c] = Some(UserB)
       /\ github_user[c] = None
       /\ offered_key_fingerprints[c] = << compute_fingerprint_from_pubkey(1) >>
       /\ Listed(bootstrap_github_users[1], 1)
       /\ key_to_github = << >>

\* A keyboard-interactive event with response r on connection c.  (The
\* first conjuncts hold of every such step.)
KeyboardInteractiveEvent(c, r) ==
    /\ pc[c] = "idle"
    /\ pc'[c] = "idle"
    /\ auth_result'[1] = c
    /\ offered_key_fingerprints' = offered_key_fingerprints
    /\ AuthKeyboardInteractive(c, r)

\* C28: keyboard-interactive never authenticates: the initial request is
\* answered with Partial, a response whose first entry passes
\* validate_github_username is stored as the pending identity and answered
\* with Reject with only publickey enabled, an empty or invalid response is
\* rejected and leaves the pending identity as it was; no such event
\* returns Accept or changes the session identity, the project, the offered
\* fingerprints or the bindings.
C28_KeyboardInteractiveNeverAuthenticates ==
    [][\A c \in Conns, r \in KbdResponses :
          KeyboardInteractiveEvent(c, r) =>
             /\ auth_result'[2] # "Accept"
             /\ github_user' = github_user
             /\ key_to_github' = key_to_github
             /\ project' = project
             /\ \A d \in Conns \ {c} : pending_github_user'[d] = pending_github_user[d]
             /\ IF r = None
                THEN /\ auth_result'[2] = "Partial"
                     /\ pending_github_user'[c] = pending_github_user[c]
                ELSE IF Unwrap(r) # << >> /\ validate_github_username(Unwrap(r)[1])
                THEN /\ auth_result'[2] = "RejectPublicKey"
                     /\ pending_github_user'[c] = Some(Unwrap(r)[1])
                ELSE /\ auth_result'[2] = "Reject"
                     /\ pending_github_user'[c] = pending_github_user[c]]_vars

\* An identity typed at the prompt is pending on a connection that is not
\* authenticated and was just told to come back with publickey.
C28_Witness ==
    \E c \in Conns :
       /\ pc[c] = "idle"
       /\ auth_result = << c, "RejectPublicKey" >>
       /\ pending_github_user[c] = Some(UserB)
       /\ github_user[c] = None
       /\ offered_key_fingerprints[c] # << >>

\* Connection c has been accepted as authenticated: a callback of c has
\* returned Accept, which every callback does with the session identity set
\* and none does without.
Accepted(c) == pc[c] = "idle" /\ IsSome(github_user[c])

\* C29: in every state in which a connection has been accepted as
\* authenticated, its project is set, to a name that passes
\* validate_project_name.
C29_AcceptedHasValidProject ==
    \A c \in Conns :
       Accepted(c) =>
          /\ IsSome(project[c])
          /\ validate_project_name(Unwrap(project[c]))

(***************************************************************************)
(* C30: concurrent provisioning.                                           *)
(***************************************************************************)
\* C30: a project maps to at most one container: when the connections
\* provision the same workspace concurrently, at most one container is
\* created for it, and every request that has returned a container is
\* bound to the container the workspace entry records.
C30_OneContainerPerProject ==
    /\ Cardinality(DOMAIN containers) <= 1
    /\ \A c \in Conns :
          provisioning[c].pc = "bound" =>
             /\ IsSome(workspaces)
             /\ Unwrap(workspaces).container_id = Some(provisioning[c].id)

(***************************************************************************)
(* C31: container rediscovery.                                             *)
(***************************************************************************)
\* C31: when no engine call fails, get_or_create_container returns Ok.  If
\* the entry names a container that exists, that container is returned,
\* after an unpause if it was paused and a start if it was not running, and
\* nothing else changes; if the entry names a container that is gone or
\* names none, a new container is created and started, its id is returned
\* and the entry is rewritten to it.
C31_Rediscovery ==
    [][(fn_arg' # << >> /\ fn_arg'[1] = "none") =>
          IF Resolves
          THEN LET id == Unwrap(Unwrap(workspaces).container_id)
               IN  /\ fn_ret' = CallResult("get_or_create_container", << TRUE, id >>)
                   /\ containers' = [containers EXCEPT ![id].running = TRUE,
                                                       ![id].paused = FALSE]
                   /\ workspaces' = workspaces
                   /\ engine_calls' =
                         (IF containers[id].paused
                          THEN << EngineCall("unpause", id) >> ELSE << >>)
                         \o (IF containers[id].running
                             THEN << >> ELSE << EngineCall("start", id) >>)
          ELSE \E new \in ContainerIds \ DOMAIN containers :
                  /\ fn_ret' = CallResult("get_or_create_container", << TRUE, new >>)
                  /\ DOMAIN containers' = DOMAIN containers \cup {new}
                  /\ \A old \in DOMAIN containers : containers'[old] = containers[old]
                  /\ containers'[new].running /\ ~containers'[new].paused
                  /\ ~NameInUse(containers, containers'[new].name)
                  /\ workspaces' =
                        Some(WorkspaceInfo(containers'[new].name, new))
                  /\ engine_calls' =
                        << EngineCall("create", new), EngineCall("start", new) >>]_vars

\* The entry named container 2, which is gone: container 1 was created,
\* started, returned and recorded.
C31_Witness ==
    /\ fn_arg = << "none", Some(WorkspaceInfo(1, 2)) >>
    /\ fn_ret = CallResult("get_or_create_container", << TRUE, 1 >>)
    /\ DOMAIN containers = {1}
    /\ containers[1].running
    /\ workspaces = Some(WorkspaceInfo(0, 1))
    /\ engine_calls = << EngineCall("create", 1), EngineCall("start", 1) >>

ExecsOf(ch) == { e \in 1..Len(execs) : execs[e].channel = ch }

ExitStatusesOn(ch) == { i \in 1..Len(sent[ch]) : sent[ch][i].kind = "exit_status" }

\* C33: a channel has at most one exec bound to it: a second shell or exec
\* request on the channel starts no second process for it, and at most
\* one exit-status is ever emitted on the channel.
C33_OneExecPerChannel ==
    \A ch \in Channels :
       /\ Cardinality(ExecsOf(ch)) <= 1
       /\ Cardinality(ExitStatusesOn(ch)) <= 1

\* The messages exec e's stdin has been given, written or still queued.
StdinOf(e) == stdin[e].written \o stdin[e].queue

\* C34: client data on a channel goes to the stdin of the exec bound to it,
\* in arrival order, and to no other exec; data on a channel whose exec's
\* sender was dropped by eof, or that has no exec, is discarded without an
\* error; eof drops the sender and changes nothing else, so the exec's
\* output goes on; the stdin task writes the messages in the order queued
\* and closes the exec's input, with nothing left to write, only once the
\* sender is dropped or the exec's output has ended.
C34_InputRouting ==
    [][/\ \A ch \in Channels :
             arrived'[ch] # arrived[ch] =>
                LET msg == << ch, arrived[ch] + 1 >>
                IN  /\ alive' /\ execs' = execs /\ sent' = sent
                    /\ exec_sessions' = exec_sessions
                    /\ IF BoundExec(ch) /\ stdin[Unwrap(exec_sessions[ch]).exec_id].rx = "open"
                       THEN LET e == Unwrap(exec_sessions[ch]).exec_id
                            IN  /\ \/ stdin'[e].queue = Append(stdin[e].queue, msg)
                                   \/ /\ Len(stdin[e].queue) = StdinCapacity
                                      /\ data_call' = Some([channel |-> ch, exec |-> e,
                                                            msg |-> msg])
                                /\ \A o \in BridgeIds \ {e} : stdin'[o] = stdin[o]
                       ELSE stdin' = stdin /\ data_call' = data_call
       /\ \A ch \in Channels :
             (BoundExec(ch) /\ IsSome(exec_sessions'[ch])
                 /\ ~Unwrap(exec_sessions'[ch]).stdin_tx) =>
                /\ Unwrap(exec_sessions'[ch]).exec_id = Unwrap(exec_sessions[ch]).exec_id
                /\ execs' = execs /\ sent' = sent /\ stdin' = stdin /\ alive'
       /\ \A e \in BridgeIds :
             /\ stdin'[e].written # stdin[e].written =>
                   /\ stdin[e].queue # << >>
                   /\ stdin'[e].written = Append(stdin[e].written, Head(stdin[e].queue))
                   /\ stdin'[e].queue = Tail(stdin[e].queue)
             /\ (stdin[e].input = "open" /\ stdin'[e].input = "closed"
                    /\ stdin[e].queue = << >>) =>
                   ~HasSender(e) \/ execs'[e].pc = "done"
             /\ \A i \in 1..Len(StdinOf(e)) :
                   /\ e <= Len(execs)
                   /\ StdinOf(e)[i][1] = execs[e].channel
                   /\ \A j \in 1..(i - 1) : StdinOf(e)[j][2] < StdinOf(e)[i][2]
                   /\ \A o \in BridgeIds \ {e} : ~Contains(StdinOf(o), StdinOf(e)[i])]_vars

\* The first message of a channel was written to its exec's stdin; after
\* eof the input was closed and the second message discarded, and output
\* of the exec reached the channel.
C34_Witness ==
    \E ch \in Channels :
       /\ IsSome(exec_sessions[ch])
       /\ ~Unwrap(exec_sessions[ch]).stdin_tx
       /\ LET e == Unwrap(exec_sessions[ch]).exec_id
          IN  /\ stdin[e].written = << << ch, 1 >> >>
              /\ stdin[e].queue = << >>
              /\ stdin[e].input = "closed"
              /\ execs[e].pc = "stream"
              /\ execs[e].output = << "StdOut" >>
       /\ arrived[ch] = 2
       /\ Len(execs) = 1

\* C35: the stdin channel of an exec never holds more than 32 messages; a
\* data message that finds it full is neither dropped nor let past another:
\* the data callback is suspended with it, no further callback runs until
\* it returns, and it returns with the message queued behind the others
\* (or with the stdin task gone).
C35_BackpressureBound ==
    [][/\ \A e \in BridgeIds :
             Len(stdin[e].queue) <= StdinCapacity /\ Len(stdin'[e].queue) <= StdinCapacity
       /\ \A ch \in Channels :
             (/\ arrived'[ch] # arrived[ch]
              /\ BoundExec(ch)
              /\ stdin[Unwrap(exec_sessions[ch]).exec_id].rx = "open"
              /\ Len(stdin[Unwrap(exec_sessions[ch]).exec_id].queue) = StdinCapacity) =>
                /\ data_call' = Some([channel |-> ch,
                                      exec |-> Unwrap(exec_sessions[ch]).exec_id,
                                      msg |-> << ch, arrived[ch] + 1 >>])
                /\ stdin' = stdin
       /\ IsSome(data_call) =>
             LET e == Unwrap(data_call).exec
             IN  /\ arrived' = arrived
                 /\ exec_sessions' = exec_sessions
                 /\ channels' = channels
                 /\ data_call' # data_call =>
                       /\ data_call' = None
                       /\ \/ stdin[e].rx = "dropped" /\ stdin' = stdin
                          \/ /\ stdin[e].rx = "open"
                             /\ stdin'[e].queue =
                                   Append(stdin[e].queue, Unwrap(data_call).msg)]_vars

\* The stdin channel of exec 1 holds 32 messages and the data callback is
\* suspended with the 33rd.
C35_Witness ==
    /\ Len(stdin[1].queue) = StdinCapacity
    /\ stdin[1].written = << >>
    /\ IsSome(data_call)
    /\ Unwrap(data_call).exec = 1
    /\ Unwrap(data_call).msg[2] = StdinCapacity + 1

\* C36: a channel whose exec does not read its stdin cannot stall the
\* connection: a data callback suspended on the full stdin channel
\* eventually returns.
C36_DataCallbackReturns == IsSome(data_call) ~> data_call = None

\* The frame exec e read in this step, if it read one.
ReadFrame(e) ==
    /\ e <= Len(execs')
    /\ Len(execs'[e].output) = Len(execs[e].output) + 1

\* C37: a stderr frame of a Session exec is handed to the channel as
\* extended data 1 and never as data; a stdout, stdin or console frame is
\* handed on as data; a stderr frame of a TcpForward exec is handed on in
\* no form.  On a connection that is gone nothing is handed on.
C37_StderrSeparation ==
    [][/\ \A e \in 1..Len(execs) : ReadFrame(e) =>
             LET x == execs[e]
                 idx == Len(x.output) + 1
                 frame == execs'[e].output[idx]
                 handed == Appended(x.channel)
             IN  /\ \A ch \in Channels \ {x.channel} : sent'[ch] = sent[ch]
                 /\ ~alive => handed = << >>
                 /\ (alive /\ frame = "StdErr" /\ x.kind = "Session") =>
                       handed = << Msg(e, "extended_data", << "StdErr", idx >>) >>
                 /\ (frame = "StdErr" /\ x.kind = "TcpForward") => handed = << >>
                 /\ (alive /\ frame \in { "StdOut", "StdIn", "Console" }) =>
                       handed = << Msg(e, "data", << frame, idx >>) >>
       /\ \A e \in 1..Len(execs) : \A i \in 1..Len(ExecLog(e)) :
             LET m == ExecLog(e)[i]
             IN  /\ m.kind = "data" => m.arg[1] \in { "StdOut", "StdIn", "Console" }
                 /\ m.kind = "extended_data" =>
                       m.arg[1] = "StdErr" /\ execs[e].kind = "Session"]_vars

\* A Session exec read a stdout and a stderr frame, and its channel holds
\* the first as data and the second as extended data.
C37_Witness ==
    \E e \in 1..Len(execs) :
        /\ alive
        /\ execs[e].kind = "Session"
        /\ execs[e].output = << "StdOut", "StdErr" >>
        /\ ExecLog(e) = << Msg(e, "data", << "StdOut", 1 >>),
                           Msg(e, "extended_data", << "StdErr", 2 >>) >>

\* A TcpForward exec read a stderr frame and then a console frame, and its
\* channel holds the console frame alone.
C37_WitnessTcpForward ==
    \E e \in 1..Len(execs) :
        /\ alive
        /\ execs[e].kind = "TcpForward"
        /\ execs[e].output = << "StdErr", "Console" >>
        /\ ExecLog(e) = << Msg(e, "data", << "Console", 2 >>) >>

\* The stream loop of Session exec e has been left.
StreamEnded(e) ==
    e <= Len(execs) /\ execs[e].kind = "Session" /\ execs[e].pc # "stream"

\* The I/O task of Session exec e is through: it made between 1 and 80
\* inspect calls, and on a connection that is still there the channel has
\* been handed exit-status, eof and close after the frames.
PumpThrough(e) ==
    /\ e <= Len(execs)
    /\ execs[e].pc = "done"
    /\ execs[e].poll.polls \in 1..PollLimit
    /\ alive =>
          /\ Len(ExecLog(e)) >= 3
          /\ SubSeq(KindsOf(ExecLog(e)), Len(ExecLog(e)) - 2, Len(ExecLog(e)))
                = << "exit_status", "eof", "close" >>

\* C38: once the output stream of a Session exec has ended, its I/O task
\* always gets through: after at most 80 inspect calls it hands the channel
\* exit-status, eof and close, also when every answer says running or the
\* inspect call fails.
C38_PumpTerminates ==
    /\ [](\A e \in 1..Len(execs) : execs[e].poll.polls <= PollLimit)
    /\ \A e \in 1..MaxExecs : StreamEnded(e) ~> PumpThrough(e)

\* A Session exec is through on a live connection after 80 answers that all
\* said running.
C38_Witness ==
    \E e \in 1..Len(execs) :
        /\ alive
        /\ PumpThrough(e)
        /\ execs[e].kind = "Session"
        /\ execs[e].ended = "eof"
        /\ execs[e].poll.polls = PollLimit
        /\ execs[e].poll.inspect = InspectOk(Some(TRUE), None)

\* A Session exec is through on a live connection after an inspect call
\* that failed.
C38_WitnessInspectFails ==
    \E e \in 1..Len(execs) :
        /\ alive
        /\ PumpThrough(e)
        /\ execs[e].kind = "Session"
        /\ execs[e].poll.inspect = InspectErr
        /\ execs[e].poll.polls = 1

\* An entry left remote_forwards on a connection that is still there.
EntryRemoved ==
    /\ alive'
    /\ DOMAIN remote_forwards' # DOMAIN remote_forwards
    /\ DOMAIN remote_forwards' \subseteq DOMAIN remote_forwards

\* A cancel request was answered with `ok` in this step.  (A request that
\* repeats the last one shows only when it changes the entries.)
CancelAnswered(ok) ==
    /\ fn_ret' = CallResult("cancel_tcpip_forward", ok)
    /\ << fn_arg', fn_ret' >> # << fn_arg, fn_ret >> \/ EntryRemoved

\* C39: a cancel-tcpip-forward for a registered address and port is
\* accepted, aborts the listener task of that entry and removes that entry
\* and no other; no other listener is touched.  One for an address and port
\* that is not registered is refused and changes nothing.  An entry is kept
\* under the address as the client gave it and the port the listener is
\* bound to.
C39_CancelRemoteForward ==
    [][/\ \A k \in DOMAIN remote_forwards :
             /\ listeners[remote_forwards[k]].address = k[1]
             /\ listeners[remote_forwards[k]].port = k[2]
             /\ k[2] # 0
       /\ EntryRemoved => CancelAnswered(TRUE)
       /\ CancelAnswered(TRUE) =>
             /\ fn_arg' \in DOMAIN remote_forwards
             /\ DOMAIN remote_forwards' = DOMAIN remote_forwards \ {fn_arg'}
             /\ \A k \in DOMAIN remote_forwards' : remote_forwards'[k] = remote_forwards[k]
             /\ Len(listeners') = Len(listeners)
             /\ listeners'[remote_forwards[fn_arg']].state # "listening"
             /\ \A l \in 1..Len(listeners) :
                   l # remote_forwards[fn_arg'] => listeners'[l] = listeners[l]
             /\ UNCHANGED << tcp_conns, forwarded, port_forwarding >>
       /\ CancelAnswered(FALSE) =>
             /\ fn_arg' \notin DOMAIN remote_forwards
             /\ UNCHANGED fwdVars]_vars

\* Two forwards are registered, one of them asked for with port 0 and kept
\* under the port the host handed out; the cancel of that one was accepted,
\* its listener is aborted and the other is listening under its entry.
C39_Witness ==
    /\ alive
    /\ fn_ret = CallResult("cancel_tcpip_forward", TRUE)
    /\ fn_arg \notin DOMAIN remote_forwards
    /\ fn_arg[2] \in EphemeralPorts
    /\ Len(listeners) = 2
    /\ \E l \in 1..2 :
          /\ listeners[l].state = "aborted"
          /\ << listeners[l].address, listeners[l].port >> = fn_arg
          /\ listeners[3 - l].state = "listening"
          /\ listeners[3 - l].port = fn_arg[2]
          /\ << listeners[3 - l].address, listeners[3 - l].port >> \in DOMAIN remote_forwards

\* A cancel with port 0 of a forward that was asked for with port 0 was
\* refused: the entry is under the bound port.
C39_WitnessRefused ==
    /\ alive
    /\ fn_ret = CallResult("cancel_tcpip_forward", FALSE)
    /\ fn_arg[2] = 0
    /\ \E k \in DOMAIN remote_forwards : k[1] = fn_arg[1] /\ k[2] \in EphemeralPorts

\* The command lines that run a destroy for real: confirmed and no dry run.
RealDestroys ==
    { command \in ControlCommands :
         LET ctrl == parse_gateway_control_command(trim(command))
         IN  /\ IsSome(ctrl)
             /\ Unwrap(ctrl).cmd = "Destroy"
             /\ ~Unwrap(ctrl).dry_run
             /\ ~NeedsConfirmation(Unwrap(ctrl)) }

\* C40: a destroy that is no dry run is answered with exit-status 0 only if
\* every collected target was removed or was absent already: afterwards the
\* engine has no container of any target.  (A stop or remove call that
\* fails otherwise is to give exit-status 1 and no summary.)
C40_DestroyExitStatus ==
    [][\A ch \in Channels, command \in RealDestroys, dfault \in DestroyFaults :
          (/\ Len(sent'[ch]) > Len(sent[ch])
           /\ ExecRequest(ch, command, "none", dfault)
           /\ Appended(ch)[3].arg = << 0 >>) =>
              LET targets == DestroyTargets(workspaces, containers, dfault)
              IN  \A i \in 1..Len(targets) : Resolve(containers', targets[i]) = 0]_vars
====
